---- MODULE Spec2Model ----
(***************************************************************************)
(* Model of the document-storage core of organ-pages (wasm/src/model):     *)
(* the File metadata/version logic (file/lib.rs, file/post.rs) and the     *)
(* rich-text bridge (file/document.rs).                                    *)
(*                                                                         *)
(* The CRDT engine (loro) is an external collaborator.  Its containers are *)
(* modelled by their documented contract: a LoroText is a sequence of      *)
(* characters, each carrying a set of <<key, value>> attributes; a         *)
(* LoroList is a sequence; a LoroMap is a record.  The engine is taken to  *)
(* accept every attribute key of a delta.                                  *)
(***************************************************************************)
EXTENDS Integers, Sequences, FiniteSets, TLC

VARIABLES
    doc,    \* the file's LoroDoc, root map "doc": [hasChildren, children]
    meta,   \* the file's "meta" map: [id, name, type, title, url, version,
            \* pm_schema]
    store,  \* FileStore of the File: "none" (no File built), "full", "cache"
    last    \* the last call and what it returned (observation only; under
            \* SpecBuilder it also holds the id field of the builder)
\* SpecCollection, SpecFields, SpecProject and SpecOps are about other
\* objects than one file; the comment at the head of each says what the four
\* variables hold under it.

vars == <<doc, meta, store, last>>

-----------------------------------------------------------------------------
(* Bounds of the model *)

\* longest text a single container may hold
MaxLen == 3
\* largest version the model lets a file reach
MaxVersion == 3
\* most top-level nodes a document may hold
MaxNodes == 2
\* largest absolute position a caller passes
MaxPos == 6
\* most steps in one batch handed to apply_steps
MaxBatch == 2
\* most batches of mark steps applied to one document
MaxMarkBatches == 2

Min(a, b) == IF a < b THEN a ELSE b

-----------------------------------------------------------------------------
(* Values *)

\* serde_json Value::Null / LoroValue::Null
Null == [t |-> "null"]
True == [t |-> "bool", b |-> TRUE]
\* a string, as the sequence of its characters
Str(s) == [t |-> "str", s |-> s]
I64(n) == [t |-> "i64", n |-> n]
\* a JSON object, as its set of <<key, value>> members
Obj(o) == [t |-> "obj", o |-> o]

\* a character of a LoroText with the attributes (marks) it carries
Ch(c, attrs) == [c |-> c, attrs |-> attrs]

\* a LoroText container (document.rs:104)
Text(chars) == [kind |-> "text", chars |-> chars]
\* a LoroMap node {nodeName, attributes, children?}; depth-limited nesting
\* a nodeName of "" stands for a map with no nodeName
Node(name, hasChildren, children) ==
    [kind |-> "map", nodeName |-> name, attributes |-> {},
     hasChildren |-> hasChildren, children |-> children]
\* any other child: a plain value or a container that is neither map nor text
Other == [kind |-> "other"]

\* plain characters of a string, as LoroText::insert stores them
Plain(s) == [i \in 1..Len(s) |-> Ch(s[i], {})]

-----------------------------------------------------------------------------
(* document.rs: find_text_at_position *)

NotFound == [ok |-> FALSE]
Found(path, start, rel) == [ok |-> TRUE, path |-> path, start |-> start, rel |-> rel]

\* a variant of the range test with the end excluded
InTextRange_exclusive(position, text_start, text_end) ==
    position >= text_start /\ position < text_end

\* the range test of a text container, end inclusive (document.rs:455, 481)
InTextRange(position, text_start, text_end) ==
    position >= text_start /\ position <= text_end

\* a variant in which a node boundary costs nothing
NodeBoundary_zero(current_pos) == current_pos

\* "Node boundaries also contribute to position" (document.rs:472)
NodeBoundary(current_pos) == current_pos + 1

RECURSIVE InnerWalk(_, _, _, _)
\* the loop over one node's children (document.rs:446-469)
InnerWalk(node_children, j, current_pos, position) ==
    IF j > Len(node_children) THEN [found |-> FALSE, pos |-> current_pos]
    ELSE IF node_children[j].kind = "text"
    THEN LET text_len == Len(node_children[j].chars)
             text_start == current_pos
             text_end == text_start + text_len
         IN  IF InTextRange(position, text_start, text_end)
             THEN [found |-> TRUE, j |-> j, start |-> text_start]
             ELSE InnerWalk(node_children, j + 1, current_pos + text_len, position)
    ELSE InnerWalk(node_children, j + 1, current_pos + 1, position)

RECURSIVE OuterWalk(_, _, _, _)
\* the loop over the root's children (document.rs:432-493)
OuterWalk(children, i, current_pos, position) ==
    IF i > Len(children) THEN NotFound
    ELSE IF children[i].kind = "map"
    THEN IF ~children[i].hasChildren
         THEN OuterWalk(children, i + 1, current_pos, position)
         ELSE LET r == InnerWalk(children[i].children, 1, current_pos, position)
              IN  IF r.found
                  THEN Found(<<i, r.j>>, r.start, position - r.start)
                  ELSE OuterWalk(children, i + 1, NodeBoundary(r.pos), position)
    ELSE IF children[i].kind = "text"
    THEN LET text_len == Len(children[i].chars)
             text_start == current_pos
             text_end == text_start + text_len
         IN  IF InTextRange(position, text_start, text_end)
             THEN Found(<<i>>, text_start, position - text_start)
             ELSE OuterWalk(children, i + 1, current_pos + text_len, position)
    ELSE OuterWalk(children, i + 1, current_pos + 1, position)

find_text_at_position(loro_doc, position) ==
    IF ~loro_doc.hasChildren THEN NotFound
    ELSE OuterWalk(loro_doc.children, 1, 0, position)

\* the text container a result of find_text_at_position refers to
TextAt(loro_doc, path) ==
    IF Len(path) = 1 THEN loro_doc.children[path[1]]
    ELSE loro_doc.children[path[1]].children[path[2]]

\* the document with the characters of the container at path replaced
WithChars(loro_doc, path, chars) ==
    IF Len(path) = 1
    THEN [loro_doc EXCEPT !.children[path[1]].chars = chars]
    ELSE [loro_doc EXCEPT !.children[path[1]].children[path[2]].chars = chars]

-----------------------------------------------------------------------------
(* The CRDT engine's text operations, as document.rs uses them *)

\* usize arithmetic of a release build wraps; TLC's integers are 32-bit
\* signed, so the wrapped value of a negative difference is represented by
\* x + 2^30, which like x + 2^32 exceeds every text length of the model
UsizeSub(a, b) == IF a < b THEN a - b + 2^30 ELSE a - b

\* LoroText::delete(pos, len): OutOfBound, and no change, past the end
LoroTextDelete(chars, pos, len) ==
    IF pos + len > Len(chars) THEN chars
    ELSE [i \in 1..(Len(chars) - len) |->
            IF i <= pos THEN chars[i] ELSE chars[i + len]]

\* attributes a plain insert at pos inherits: those of the run it falls
\* strictly inside of
Inherited(chars, pos) ==
    IF pos > 0 /\ pos < Len(chars)
    THEN chars[pos].attrs \cap chars[pos + 1].attrs
    ELSE {}

InsertAt(chars, pos, new) ==
    [i \in 1..(Len(chars) + Len(new)) |->
        IF i <= pos THEN chars[i]
        ELSE IF i <= pos + Len(new) THEN new[i - pos]
        ELSE chars[i - Len(new)]]

\* LoroText::insert(pos, s): OutOfBound, and no change, past the end
LoroTextInsert(chars, pos, s) ==
    IF pos > Len(chars) THEN chars
    ELSE InsertAt(chars, pos,
                  [i \in 1..Len(s) |-> Ch(s[i], Inherited(chars, pos))])

\* one attribute set on a character; a null value removes the key
SetAttr(attrs, key, value) ==
    LET rest == {p \in attrs : p[1] # key}
    IN  IF value = Null THEN rest ELSE rest \cup {<<key, value>>}

RECURSIVE SetAttrs(_, _)
SetAttrs(attrs, attributes) ==
    IF attributes = {} THEN attrs
    ELSE LET p == CHOOSE q \in attributes : TRUE
         IN  SetAttrs(SetAttr(attrs, p[1], p[2]), attributes \ {p})

\* LoroText::apply_delta of [retain(skip), retain(len, attributes)];
\* TextDelta::from_text_diff turns an empty attribute map into None, and
\* marking past the end of the text is OutOfBound, with no change
ApplyRetainDelta(chars, skip, len, attributes) ==
    IF attributes = {} \/ skip + len > Len(chars) THEN chars
    ELSE [i \in 1..Len(chars) |->
            IF i > skip /\ i <= skip + len
            THEN Ch(chars[i].c, SetAttrs(chars[i].attrs, attributes))
            ELSE chars[i]]

\* LoroText::apply_delta of [retain(skip), insert(s, attributes)]: the new
\* characters carry exactly the non-null attributes of the delta
ApplyInsertDelta(chars, skip, s, attributes) ==
    IF skip > Len(chars) THEN chars
    ELSE InsertAt(chars, skip,
                  [i \in 1..Len(s) |-> Ch(s[i], SetAttrs({}, attributes))])

-----------------------------------------------------------------------------
(* document.rs: apply_steps_to_loro_doc *)

\* a JSON member that is not there
Absent == [t |-> "absent"]

\* {type, attrs?} of a step's mark or of a slice item's marks
Mark(type, attrs) == [type |-> type, attrs |-> attrs]
NoMark == [has |-> FALSE, type |-> "", attrs |-> Absent]
\* one item of slice.content: {type, text, marks?}
Item(type, text, marks) == [type |-> type, text |-> text, marks |-> marks]
NoMarks == [has |-> FALSE, arr |-> <<>>]
Marks(arr) == [has |-> TRUE, arr |-> arr]
NoSlice == [has |-> FALSE, content |-> <<>>]
Slice(content) == [has |-> TRUE, content |-> content]

ReplaceStep(from, to, slice) ==
    [stepType |-> "replace", from |-> from, to |-> to, slice |-> slice, mark |-> NoMark]
AddMarkStep(from, to, mark) ==
    [stepType |-> "addMark", from |-> from, to |-> to, slice |-> NoSlice,
     mark |-> [has |-> TRUE, type |-> mark.type, attrs |-> mark.attrs]]
RemoveMarkStep(from, to, mark) ==
    [stepType |-> "removeMark", from |-> from, to |-> to, slice |-> NoSlice,
     mark |-> [has |-> TRUE, type |-> mark.type, attrs |-> mark.attrs]]
\* a step of another type ("replaceAround", ...), or with no stepType ("")
OtherStep(stepType) ==
    [stepType |-> stepType, from |-> 0, to |-> 0, slice |-> NoSlice, mark |-> NoMark]

\* what applying steps has done so far: the document, has_changes, and
\* whether an arithmetic overflow check aborted the call
Applied(loro_doc, has_changes, panic) ==
    [doc |-> loro_doc, has_changes |-> has_changes, panic |-> panic]

\* a variant that does not clip to to the end of the container
rel_to_unclipped(to, text_start, text_len) == UsizeSub(to, text_start)

\* min(to, text_start + text.len_unicode()) - text_start
\* (document.rs:527-528, 716-717, 803-804)
rel_to(to, text_start, text_len) ==
    UsizeSub(Min(to, text_start + text_len), text_start)

\* whether that subtraction underflows
RelToUnderflows(to, text_start, text_len) ==
    Min(to, text_start + text_len) < text_start

\* the deletion of a replace step (document.rs:523-552)
ReplaceDelete(loro_doc, from, to, checks) ==
    IF from = to THEN Applied(loro_doc, FALSE, FALSE)
    ELSE LET r == find_text_at_position(loro_doc, from)
         IN  IF ~r.ok THEN Applied(loro_doc, FALSE, FALSE)
             ELSE LET chars == TextAt(loro_doc, r.path).chars
                      rel_from == r.rel
                      relTo == rel_to(to, r.start, Len(chars))
                  IN  IF checks /\ RelToUnderflows(to, r.start, Len(chars))
                      THEN Applied(loro_doc, FALSE, TRUE)
                      ELSE IF rel_from < relTo
                      THEN Applied(
                             WithChars(loro_doc, r.path,
                                       LoroTextDelete(chars, rel_from, relTo - rel_from)),
                             TRUE, FALSE)
                      ELSE Applied(loro_doc, FALSE, FALSE)

RECURSIVE AllAttributes(_, _)
\* all_attributes of a slice item's marks: mark type -> attrs or null
\* (document.rs:612-643); a later mark of the same type overwrites
AllAttributes(marks, k) ==
    IF k = 0 THEN {}
    ELSE LET before == AllAttributes(marks, k - 1)
             value == IF marks[k].attrs = Absent THEN Null ELSE marks[k].attrs
         IN  {p \in before : p[1] # marks[k].type} \cup {<<marks[k].type, value>>}

\* one item of slice.content inserted at rel_pos (document.rs:564-686)
InsertItem(chars, rel_pos, item) ==
    IF item.type # "text" \/ item.text = <<>> THEN chars
    ELSE IF item.marks.has /\ item.marks.arr # <<>>
    THEN ApplyInsertDelta(chars, rel_pos, item.text,
                          AllAttributes(item.marks.arr, Len(item.marks.arr)))
    ELSE LoroTextInsert(chars, rel_pos, item.text)

RECURSIVE InsertItems(_, _, _, _)
\* the loop over content_arr: every item goes in at the same rel_pos
InsertItems(chars, rel_pos, content_arr, k) ==
    IF k > Len(content_arr) THEN chars
    ELSE InsertItems(InsertItem(chars, rel_pos, content_arr[k]), rel_pos,
                     content_arr, k + 1)

\* whether an item sets has_changes
ItemInserts(item) == item.type = "text" /\ item.text # <<>>

\* the insertion of a replace step (document.rs:554-698)
ReplaceInsert(loro_doc, from, slice) ==
    IF ~slice.has \/ slice.content = <<>> THEN Applied(loro_doc, FALSE, FALSE)
    ELSE LET r == find_text_at_position(loro_doc, from)
         IN  IF ~r.ok THEN Applied(loro_doc, FALSE, FALSE)
             ELSE Applied(
                    WithChars(loro_doc, r.path,
                              InsertItems(TextAt(loro_doc, r.path).chars, r.rel,
                                          slice.content, 1)),
                    \E k \in 1..Len(slice.content) : ItemInserts(slice.content[k]),
                    FALSE)

AddMarkAttributes(mark) ==
    IF mark.attrs = Absent THEN {<<"value", True>>}
    ELSE IF mark.attrs.t = "obj" THEN mark.attrs.o
    ELSE {}

RemoveMarkAttributes(mark) == {}

\* an addMark or removeMark step (document.rs:701-856)
MarkStep(loro_doc, from, to, mark, attributes, checks) ==
    IF ~mark.has THEN Applied(loro_doc, FALSE, FALSE)
    ELSE LET r == find_text_at_position(loro_doc, from)
         IN  IF ~r.ok THEN Applied(loro_doc, FALSE, FALSE)
             ELSE LET chars == TextAt(loro_doc, r.path).chars
                      rel_from == r.rel
                      relTo == rel_to(to, r.start, Len(chars))
                  IN  IF checks /\ RelToUnderflows(to, r.start, Len(chars))
                      THEN Applied(loro_doc, FALSE, TRUE)
                      ELSE IF rel_from < relTo
                      THEN Applied(
                             WithChars(loro_doc, r.path,
                                       ApplyRetainDelta(chars, rel_from,
                                                        relTo - rel_from, attributes)),
                             TRUE, FALSE)
                      ELSE Applied(loro_doc, FALSE, FALSE)

\* what a further operation adds to what was applied so far: has_changes,
\* once true, stays true (document.rs:503, 543, 596, 684, 765, 848)
Merge(acc, a) == Applied(a.doc, acc.has_changes \/ a.has_changes, a.panic)

\* a replace step after its deletion d: the insertion resolves its position
\* anew in the document the deletion left (document.rs:554-560)
ReplaceAfterDelete(d, from, slice) ==
    IF d.panic THEN d ELSE Merge(d, ReplaceInsert(d.doc, from, slice))

\* a variant in which a step of an unknown type ends the batch
ApplyStep_strict(loro_doc, step, checks) ==
    IF step.stepType = "replace"
    THEN ReplaceAfterDelete(ReplaceDelete(loro_doc, step.from, step.to, checks),
                            step.from, step.slice)
    ELSE IF step.stepType = "addMark"
    THEN MarkStep(loro_doc, step.from, step.to, step.mark,
                  AddMarkAttributes(step.mark), checks)
    ELSE IF step.stepType = "removeMark"
    THEN MarkStep(loro_doc, step.from, step.to, step.mark,
                  RemoveMarkAttributes(step.mark), checks)
    ELSE Applied(loro_doc, FALSE, TRUE)

\* one step of the batch (document.rs:505-863)
ApplyStep(loro_doc, step, checks) ==
    IF step.stepType = "replace"
    THEN ReplaceAfterDelete(ReplaceDelete(loro_doc, step.from, step.to, checks),
                            step.from, step.slice)
    ELSE IF step.stepType = "addMark"
    THEN MarkStep(loro_doc, step.from, step.to, step.mark,
                  AddMarkAttributes(step.mark), checks)
    ELSE IF step.stepType = "removeMark"
    THEN MarkStep(loro_doc, step.from, step.to, step.mark,
                  RemoveMarkAttributes(step.mark), checks)
    ELSE Applied(loro_doc, FALSE, FALSE)

RECURSIVE ApplyFrom(_, _, _, _)
\* the loop over the steps (document.rs:505)
ApplyFrom(acc, steps, k, checks) ==
    IF k > Len(steps) \/ acc.panic THEN acc
    ELSE ApplyFrom(Merge(acc, ApplyStep(acc.doc, steps[k], checks)),
                   steps, k + 1, checks)

\* apply_steps_to_loro_doc: never an Err; checks says whether the build
\* traps on arithmetic overflow
apply_steps_to_loro_doc(loro_doc, steps, checks) ==
    ApplyFrom(Applied(loro_doc, FALSE, FALSE), steps, 1, checks)

-----------------------------------------------------------------------------
(* document.rs: loro_doc_to_pm_doc *)

\* the "marks" member of a text node: null when the run has no attribute,
\* else one {type, attrs} per attribute (document.rs:191-210)
MarksJson(attrs) ==
    IF attrs = {} THEN [null |-> TRUE, arr |-> {}]
    ELSE [null |-> FALSE, arr |-> {[type |-> p[1], attrs |-> p[2]] : p \in attrs}]

TextJson(text, attrs) == [type |-> "text", text |-> text, marks |-> MarksJson(attrs)]

RECURSIVE DeltaRuns(_, _)
\* LoroText::to_delta over the first k characters: one insert per maximal
\* run of characters with equal attributes, as a text node each
DeltaRuns(chars, k) ==
    IF k = 0 THEN <<>>
    ELSE LET before == DeltaRuns(chars, k - 1)
         IN  IF k > 1 /\ chars[k].attrs = chars[k - 1].attrs
             THEN [before EXCEPT ![Len(before)].text = Append(@, chars[k].c)]
             ELSE Append(before, TextJson(<<chars[k].c>>, chars[k].attrs))

text_to_pm_node(text) ==
    IF Len(text.chars) > 0 THEN DeltaRuns(text.chars, Len(text.chars))
    ELSE <<TextJson(<<>>, {})>>

\* the attrs member of a node: string, bool and number attributes, null when
\* none is left (document.rs:258-288, 334-364)
AttrsJson(attributes) ==
    LET kept == {p \in attributes : p[2].t \in {"str", "bool", "i64", "double"}}
    IN  IF kept = {} THEN Null ELSE Obj(kept)

ConvErr == [ok |-> FALSE]
ConvOk(json) == [ok |-> TRUE, json |-> json]

RECURSIVE convert_loro_map_to_pm_node(_)
RECURSIVE ConvertChildren(_, _)
\* a variant of the loop that converts the map children alone
ConvertChildren_maps_only(children_list, k) ==
    IF k = 0 THEN <<>>
    ELSE LET before == ConvertChildren(children_list, k - 1)
             child == children_list[k]
         IN  IF child.kind = "map"
             THEN LET c == convert_loro_map_to_pm_node(child)
                  IN  IF c.ok THEN Append(before, c.json) ELSE before
             ELSE before

\* the loop over a node's children (document.rs:381-398): a child that
\* fails to convert is logged and left out
ConvertChildren(children_list, k) ==
    IF k = 0 THEN <<>>
    ELSE LET before == ConvertChildren(children_list, k - 1)
             child == children_list[k]
         IN  IF child.kind = "map"
             THEN LET c == convert_loro_map_to_pm_node(child)
                  IN  IF c.ok THEN Append(before, c.json) ELSE before
             ELSE IF child.kind = "text" THEN before \o text_to_pm_node(child)
             ELSE before

\* convert_loro_map_to_pm_node (document.rs:326-412)
convert_loro_map_to_pm_node(map) ==
    IF map.nodeName = "" THEN ConvErr
    ELSE IF ~map.hasChildren
    THEN ConvOk([type |-> map.nodeName, attrs |-> AttrsJson(map.attributes),
                 content |-> [k |-> "absent", items |-> <<>>]])
    ELSE LET content == ConvertChildren(map.children, Len(map.children))
         IN  ConvOk([type |-> map.nodeName, attrs |-> AttrsJson(map.attributes),
                     content |-> IF content = <<>>
                                 THEN [k |-> "null", items |-> <<>>]
                                 ELSE [k |-> "array", items |-> content]])

RECURSIVE ConvertRootChildren(_, _)
\* the loop over the root's children (document.rs:299-313): a child that
\* fails to convert fails the call
ConvertRootChildren(children_list, k) ==
    IF k = 0 THEN ConvOk(<<>>)
    ELSE LET before == ConvertRootChildren(children_list, k - 1)
             child == children_list[k]
         IN  IF ~before.ok THEN before
             ELSE IF child.kind = "map"
             THEN LET c == convert_loro_map_to_pm_node(child)
                  IN  IF c.ok THEN ConvOk(Append(before.json, c.json)) ELSE ConvErr
             ELSE IF child.kind = "text"
             THEN ConvOk(before.json \o text_to_pm_node(child))
             ELSE before

\* loro_doc_to_pm_doc (document.rs:240-323)
loro_doc_to_pm_doc(loro_doc) ==
    IF loro_doc.nodeName = "" \/ ~loro_doc.hasChildren THEN ConvErr
    ELSE LET content == ConvertRootChildren(loro_doc.children, Len(loro_doc.children))
         IN  IF ~content.ok THEN ConvErr
             ELSE ConvOk([type |-> loro_doc.nodeName,
                          attrs |-> AttrsJson(loro_doc.attributes),
                          content |-> [k |-> "array", items |-> content.json]])

\* a variant in which reading pads every empty text with a space
AfterRead_padding(loro_doc) ==
    [loro_doc EXCEPT !.children =
        [i \in 1..Len(@) |->
            IF @[i].kind = "map"
            THEN [@[i] EXCEPT !.children =
                    [j \in 1..Len(@) |->
                        IF @[j].kind = "text" /\ @[j].chars = <<>>
                        THEN Text(Plain(<<" ">>)) ELSE @[j]]]
            ELSE @[i]]]

\* the document after loro_doc_to_pm_doc, convert_loro_map_to_pm_node and
\* text_to_pm_node have read it: they take &LoroDoc, &LoroMap and &LoroText
\* and call get_map, get, for_each, len, len_unicode and to_delta alone
\* (document.rs:176-412)
AfterRead(loro_doc) == loro_doc

RECURSIVE JsonText(_)
RECURSIVE JsonTextOf(_, _)
\* the text-node contents of a JSON node, concatenated in document order
JsonTextOf(items, k) ==
    IF k = 0 THEN <<>> ELSE JsonTextOf(items, k - 1) \o JsonText(items[k])
JsonText(json) ==
    IF json.type = "text" THEN json.text
    ELSE JsonTextOf(json.content.items, Len(json.content.items))

RECURSIVE JsonTextNodes(_)
RECURSIVE JsonTextNodesOf(_, _)
\* the text nodes of a JSON node, in document order
JsonTextNodesOf(items, k) ==
    IF k = 0 THEN <<>> ELSE JsonTextNodesOf(items, k - 1) \o JsonTextNodes(items[k])
JsonTextNodes(json) ==
    IF json.type = "text" THEN <<json>>
    ELSE JsonTextNodesOf(json.content.items, Len(json.content.items))

-----------------------------------------------------------------------------
(* file/lib.rs: the File trait over a FileStore *)

\* a file: its LoroDoc root, its meta map and the kind of its FileStore
FileOf(loro_doc, m, st) == [doc |-> loro_doc, meta |-> m, store |-> st]

\* LoroDoc::new(): a root map with no nodeName and no children list
EmptyDoc == Node("", FALSE, <<>>)
\* LoroMap::new()
EmptyMeta ==
    [id |-> Absent, name |-> Absent, type |-> Absent, title |-> Absent,
     url |-> Absent, version |-> Absent, pm_schema |-> Absent]

DigitChars == <<"0", "1", "2", "3", "4", "5", "6", "7", "8", "9">>

RECURSIVE NatToString(_)
NatToString(n) ==
    IF n < 10 THEN <<DigitChars[n + 1]>>
    ELSE NatToString(n \div 10) \o <<DigitChars[(n % 10) + 1]>>

\* i64::to_string
I64ToString(n) == IF n < 0 THEN <<"-">> \o NatToString(-n) ELSE NatToString(n)

IsDigit(c) == \E d \in 1..10 : DigitChars[d] = c
DigitVal(c) == (CHOOSE d \in 1..10 : DigitChars[d] = c) - 1

RECURSIVE DigitsValue(_, _)
DigitsValue(s, k) ==
    IF k = 0 THEN 0 ELSE 10 * DigitsValue(s, k - 1) + DigitVal(s[k])

\* str::parse::<i64>: an optional sign, then one or more digits
ParseI64(s) ==
    LET signed == Len(s) > 0 /\ s[1] \in {"-", "+"}
        digits == IF signed THEN SubSeq(s, 2, Len(s)) ELSE s
    IN  IF Len(digits) = 0 \/ \E k \in 1..Len(digits) : ~IsDigit(digits[k])
        THEN [ok |-> FALSE, n |-> 0]
        ELSE [ok |-> TRUE,
              n |-> IF signed /\ s[1] = "-"
                    THEN -DigitsValue(digits, Len(digits))
                    ELSE DigitsValue(digits, Len(digits))]

\* File::version (lib.rs:179-187)
version(f) ==
    IF f.meta.version.t = "i64" THEN [ok |-> TRUE, n |-> f.meta.version.n]
    ELSE IF f.meta.version.t = "str" THEN ParseI64(f.meta.version.s)
    ELSE [ok |-> FALSE, n |-> 0]

\* File::id (lib.rs:173-178)
id(f) == IF f.meta.id.t = "str" THEN [ok |-> TRUE, s |-> f.meta.id.s]
         ELSE [ok |-> FALSE, s |-> <<>>]

\* File::save_to_indexeddb (lib.rs:206-226): needs an id and a full
\* document; saved says whether the persistence collaborator succeeds
save_to_indexeddb(f, saved) == id(f).ok /\ f.store = "full" /\ saved

\* the outcome of a call on a file: the file afterwards and Ok or Err
Done(f, ok) == [f |-> f, ok |-> ok]

set_field(f, field, value, saved) ==
    LET g == [f EXCEPT !.meta[field] = Str(value)]
    IN  Done(g, save_to_indexeddb(g, saved))

set_version(f, v, saved) == set_field(f, "version", I64ToString(v), saved)

\* File::set_name (lib.rs:235-239)
set_name(f, name, saved) == set_field(f, "name", name, saved)

-----------------------------------------------------------------------------
(* document.rs: HasRichText::apply_steps *)

\* what a call returned: "ok" with a value, "err", or "panic" when an
\* arithmetic overflow check aborted it
Returned(f, result, ret) == [f |-> f, result |-> result, ret |-> ret]

\* a variant that raises the version once per step of the batch
apply_steps_per_step(f, steps, given, saved, checks) ==
    IF f.store # "full" THEN Returned(f, "err", 0)
    ELSE LET a == apply_steps_to_loro_doc(f.doc, steps, checks)
             g == [f EXCEPT !.doc = a.doc]
             new_version == (IF version(g).ok THEN version(g).n ELSE 0) + Len(steps)
             sv == set_version(g, new_version, saved)
         IN  IF a.panic THEN Returned(g, "panic", 0)
             ELSE IF sv.ok THEN Returned(sv.f, "ok", new_version)
             ELSE Returned(sv.f, "err", 0)

\* self.version().unwrap_or(0) + 1 (document.rs:982)
NextVersion(current) == (IF current.ok THEN current.n ELSE 0) + 1

\* a variant that refuses a caller whose version is not the file's
apply_steps_rejecting(f, steps, given, saved, checks) ==
    IF f.store # "full" \/ (version(f).ok /\ given # version(f).n)
    THEN Returned(f, "err", 0)
    ELSE LET a == apply_steps_to_loro_doc(f.doc, steps, checks)
             g == [f EXCEPT !.doc = a.doc]
             new_version == NextVersion(version(g))
             sv == set_version(g, new_version, saved)
         IN  IF a.panic THEN Returned(g, "panic", 0)
             ELSE IF sv.ok THEN Returned(sv.f, "ok", new_version)
             ELSE Returned(sv.f, "err", 0)

\* the end of apply_steps (document.rs:985-991): the outcome of set_version
\* decides between Ok(new_version) and Err
VersionStored(sv, new_version) ==
    IF sv.ok THEN Returned(sv.f, "ok", new_version) ELSE Returned(sv.f, "err", 0)

\* apply_steps once the steps are applied, over the file g holding their
\* result (document.rs:982-991)
IncrementVersion(g, new_version, saved) ==
    VersionStored(set_version(g, new_version, saved), new_version)

\* apply_steps after apply_steps_to_loro_doc returned a (document.rs:979-991)
AfterSteps(f, a, saved) ==
    IF a.panic THEN Returned([f EXCEPT !.doc = a.doc], "panic", 0)
    ELSE IncrementVersion([f EXCEPT !.doc = a.doc],
                          NextVersion(version([f EXCEPT !.doc = a.doc])), saved)

\* HasRichText::apply_steps (document.rs:953-992); given is the caller's
\* version, which is compared and otherwise unused.  The call of
\* set_version is taken to run to its end within apply_steps, as the
\* map_err and ? applied to its result require.
apply_steps(f, steps, given, saved, checks) ==
    IF f.store # "full" THEN Returned(f, "err", 0)
    ELSE AfterSteps(f, apply_steps_to_loro_doc(f.doc, steps, checks), saved)

-----------------------------------------------------------------------------
(* document.rs: initialize_richtext_document; file/post.rs: Post::init;    *)
(* file/lib.rs: FileBuilder::build                                         *)

\* initialize_richtext_document (document.rs:38-113): the root gets its
\* nodeName and its children list, and a new paragraph holding one empty
\* text goes in at index 0
initialize_richtext_document(loro_doc) ==
    [loro_doc EXCEPT
        !.nodeName = "doc",
        !.hasChildren = TRUE,
        !.children = <<Node("paragraph", TRUE, <<Text(<<>>)>>)>> \o @]

\* File::load_string_field_with_meta with no external meta (lib.rs:139-148)
load_string_field(f, field) ==
    IF f.meta[field].t = "str" THEN [ok |-> TRUE, s |-> f.meta[field].s]
    ELSE IF f.meta[field].t = "i64"
    THEN [ok |-> TRUE, s |-> I64ToString(f.meta[field].n)]
    ELSE [ok |-> FALSE, s |-> <<>>]

\* File::get_i64_field_with_meta(..).unwrap_or_default() (lib.rs:151-163,
\* post.rs:53-55); every version string of the model parses
get_i64_field_or_default(f, field) ==
    LET value == load_string_field(f, field)
    IN  IF value.ok THEN ParseI64(value.s).n ELSE 0

RECURSIVE RunSetters(_, _, _, _)
\* the setters of init in order; the failAt-th save of the build fails
RunSetters(f, setters, k, failAt) ==
    IF k > Len(setters) THEN Done(f, TRUE)
    ELSE LET r == set_field(f, setters[k][1], setters[k][2], failAt # k + 1)
         IN  IF r.ok THEN RunSetters(r.f, setters, k + 1, failAt) ELSE r

\* Post::init(None) (post.rs:37-66)
init(f, failAt) ==
    LET t == set_field(f, "type", <<"p", "o", "s", "t">>, failAt # 1)
    IN  IF ~t.ok THEN t
        ELSE LET g == IF t.f.store = "full"
                      THEN [t.f EXCEPT !.doc = initialize_richtext_document(@)]
                      ELSE t.f
                 fid == load_string_field(g, "id").s
                 name == load_string_field(g, "name").s
                 ver == get_i64_field_or_default(g, "version")
                 title == load_string_field(g, "title").s
                 url == load_string_field(g, "url").s
             IN  RunSetters(g, <<<<"id", fid>>, <<"name", name>>,
                                 <<"version", I64ToString(ver)>>,
                                 <<"title", title>>, <<"url", url>>>>, 1, failAt)

\* Uuid::new_v4().to_string()
NewUuid == <<"u">>

\* FileBuilder::build, lib.rs:474-487: a builder whose id field is unset
\* gives the store a new id unless its meta holds a string id
WithDefaultId(bid, f) ==
    IF bid # Absent \/ f.meta.id.t = "str" THEN f
    ELSE [f EXCEPT !.meta.id = Str(NewUuid)]

\* a variant in which a store without a version starts at version 1
WithDefaultVersion_one(f) ==
    IF f.meta.version.t = "i64" THEN f ELSE [f EXCEPT !.meta.version = I64(1)]

\* FileBuilder::build, lib.rs:489-502: the version becomes the integer 0
\* unless the meta holds an integer version
WithDefaultVersion(f) ==
    IF f.meta.version.t = "i64" THEN f ELSE [f EXCEPT !.meta.version = I64(0)]

\* FileBuilder::build from the store on (lib.rs:465-514) for a builder with
\* id field bid, ending in Post::build_from
BuildStore(bid, f, failAt) == init(WithDefaultVersion(WithDefaultId(bid, f)), failAt)

\* FileBuilder::build (lib.rs:440-515) of a builder that holds the store of
\* f and whose id field is unset
build(f, failAt) == BuildStore(Absent, f, failAt)

-----------------------------------------------------------------------------
(* file/lib.rs: FileBuilder *)

\* a FileBuilder (lib.rs:305-311): its id field and its store, as the file
\* build_from will get; the store is "none" until with_doc or with_meta
Builder(bid, f) == [id |-> bid, f |-> f]

\* FileBuilder::new (lib.rs:314-323)
NewBuilder == Builder(Absent, FileOf(EmptyDoc, EmptyMeta, "none"))

\* what a chained builder call returns: Ok with the builder, or Err, which
\* consumes the builder
Chained(b, ok) == [b |-> b, ok |-> ok]

\* FileBuilder::with_doc (lib.rs:329-336); m is the meta map of loro_doc
with_doc(b, loro_doc, m) ==
    IF b.f.store = "none"
    THEN Chained([b EXCEPT !.f = FileOf(loro_doc, m, "full")], TRUE)
    ELSE Chained(b, FALSE)

\* a variant that refuses metadata without an id or without a name
with_meta_validating(b, m) ==
    IF b.f.store = "none" /\ m.id.t = "str" /\ m.name.t = "str"
    THEN Chained([b EXCEPT !.f = FileOf(EmptyDoc, m, "cache")], TRUE)
    ELSE Chained(b, FALSE)

\* FileBuilder::with_meta (lib.rs:430-438): the map given becomes the cache
with_meta(b, m) ==
    IF b.f.store = "none"
    THEN Chained([b EXCEPT !.f = FileOf(EmptyDoc, m, "cache")], TRUE)
    ELSE Chained(b, FALSE)

\* FileBuilder::with_id (lib.rs:358-369): the id field is set before the
\* store is looked for
with_id(b, i) ==
    IF b.f.store = "none" THEN Chained([b EXCEPT !.id = Str(i)], FALSE)
    ELSE Chained([b EXCEPT !.id = Str(i), !.f.meta.id = Str(i)], TRUE)

\* FileBuilder::with_new_id (lib.rs:347-356)
with_new_id(b) == with_id(b, NewUuid)

\* a variant that finds a meta map whether or not a store is set
builder_meta_always(b) == TRUE

\* FileBuilder::meta (lib.rs:393-399): Ok with the meta map of the store, Err
\* without a store
builder_meta(b) == b.f.store # "none"

\* FileBuilder::with_version (lib.rs:375-382)
with_version(b, v) ==
    IF builder_meta(b) THEN Chained([b EXCEPT !.f.meta.version = I64(v)], TRUE)
    ELSE Chained(b, FALSE)

\* FileBuilder::with_name (lib.rs:421-428)
with_name(b, name) ==
    IF builder_meta(b) THEN Chained([b EXCEPT !.f.meta.name = Str(name)], TRUE)
    ELSE Chained(b, FALSE)

\* FileBuilder::with_pm_schema (lib.rs:401-408); schema is the string form
with_pm_schema(b, schema) ==
    IF builder_meta(b) THEN Chained([b EXCEPT !.f.meta.pm_schema = Str(schema)], TRUE)
    ELSE Chained(b, FALSE)

\* what FileBuilder::load_from_indexeddb returned (lib.rs:518-538): Ok with
\* the persisted document as a Full store, or Err
Loaded(f, ok) == [f |-> f, ok |-> ok]

\* FileBuilder::build (lib.rs:440-515): a builder with an id field and no
\* store builds from the loaded store when loading succeeds; in every other
\* case it builds from its store, or from a new empty cache without one
builder_build(b, loaded, failAt) ==
    IF b.id # Absent /\ b.f.store = "none" /\ loaded.ok
    THEN init(loaded.f, failAt)
    ELSE BuildStore(b.id,
                    IF b.f.store = "none" THEN FileOf(EmptyDoc, EmptyMeta, "cache")
                    ELSE b.f,
                    failAt)

-----------------------------------------------------------------------------
(* Spec: one rich-text file (a Post) over its life: built from a document, *)
(* edited by step batches, renamed, dropped and built again from the same  *)
(* document.                                                               *)

TheFile == FileOf(doc, meta, store)

RECURSIVE TextsWithin(_, _)
\* every text container among the first k of these nodes (and in their
\* children) holds at most n characters
TextsWithin(nodes, n) ==
    \A k \in 1..Len(nodes) :
        IF nodes[k].kind = "text" THEN Len(nodes[k].chars) <= n
        ELSE IF nodes[k].kind = "map" THEN TextsWithin(nodes[k].children, n)
        ELSE TRUE

DocWithinBounds(loro_doc) ==
    Len(loro_doc.children) <= MaxNodes /\ TextsWithin(loro_doc.children, MaxLen)

InsertA == ReplaceStep(0, 0, Slice(<<Item("text", <<"a">>, NoMarks)>>))
DeleteFirst == ReplaceStep(0, 1, NoSlice)
\* a reversed range at the start of a second paragraph
DeleteReversed == ReplaceStep(1, 0, NoSlice)

\* the steps a caller hands to apply_steps in Spec
FileSteps == {InsertA, DeleteFirst, DeleteReversed, OtherStep("replaceAround")}

RECURSIVE SeqsUpTo(_, _)
\* the sequences of at most n elements of S
SeqsUpTo(S, n) ==
    IF n = 0 THEN {<<>>}
    ELSE LET shorter == SeqsUpTo(S, n - 1)
         IN  shorter \cup {Append(q, x) : q \in {r \in shorter : Len(r) = n - 1}, x \in S}

Batches == SeqsUpTo(FileSteps, MaxBatch)
\* the versions a caller passes: stale, current or future
GivenVersions == {0, MaxVersion + 1} \cup
                 (IF version(TheFile).ok THEN {version(TheFile).n} ELSE {})
\* which save of a build fails (0: none)
FailAts == 0..6
Names == {<<"n">>}

\* what the model keeps of the last call: the operation, how it ended
\* ("ok", "err", "panic"), the value it returned, the size of its batch, the
\* version read before it, the caller's version, whether the persistence
\* collaborator accepted its saves, whether the document changed, and
\* whether the document is the one its steps produce
Observed(op, result, ret, n, before, given, saved, changed, applied) ==
    [op |-> op, result |-> result, ret |-> ret, n |-> n, before |-> before,
     given |-> given, saved |-> saved, changed |-> changed, applied |-> applied]

ResultOf(ok) == IF ok THEN "ok" ELSE "err"

FileInit ==
    /\ doc = EmptyDoc
    /\ \E v \in {Absent, I64(0), I64(1)} : meta = [EmptyMeta EXCEPT !.version = v]
    /\ store = "none"
    /\ last = Observed("new", "ok", 0, 0, version(FileOf(doc, meta, store)), 0,
                       TRUE, FALSE, TRUE)

\* FileBuilder::new("post").with_doc(doc).build() over the document of the
\* model, new or already built from before
Build(failAt) ==
    /\ store \in {"none", "full"}
    /\ Len(doc.children) < MaxNodes
    /\ \E r \in {build(FileOf(doc, meta, "full"), failAt)} :
           /\ doc' = r.f.doc
           /\ meta' = r.f.meta
           /\ store' = IF r.ok THEN "full" ELSE "none"
           /\ last' = Observed("build", ResultOf(r.ok), 0, 0, version(TheFile), 0,
                               failAt = 0, r.f.doc # doc, TRUE)

\* Post::default(): a file over an empty metadata cache
NewDefault ==
    /\ store = "none" /\ doc = EmptyDoc /\ meta = EmptyMeta
    /\ store' = "cache"
    /\ last' = Observed("default", "ok", 0, 0, version(TheFile), 0, TRUE, FALSE, TRUE)
    /\ UNCHANGED <<doc, meta>>

\* file.apply_steps(steps, given)
ApplySteps(steps, given, saved, checks) ==
    /\ store \in {"full", "cache"}
    /\ version(TheFile).ok => version(TheFile).n < MaxVersion
    /\ \E r \in {apply_steps(TheFile, steps, given, saved, checks)} :
           /\ DocWithinBounds(r.f.doc)
           /\ doc' = r.f.doc
           /\ meta' = r.f.meta
           /\ last' = Observed("apply_steps", r.result, r.ret, Len(steps),
                               version(TheFile), given, saved, r.f.doc # doc,
                               r.f.doc = apply_steps_to_loro_doc(doc, steps, checks).doc)
    /\ UNCHANGED store

\* file.set_name(name)
SetName(name, saved) ==
    /\ store \in {"full", "cache"}
    /\ \E r \in {set_name(TheFile, name, saved)} :
           /\ meta' = r.f.meta
           /\ last' = Observed("set_name", ResultOf(r.ok), 0, 0, version(TheFile), 0,
                               saved, FALSE, TRUE)
    /\ UNCHANGED <<doc, store>>

FileNext ==
    \/ \E failAt \in FailAts : Build(failAt)
    \/ NewDefault
    \/ \E steps \in Batches, given \in GivenVersions, saved \in BOOLEAN,
          checks \in BOOLEAN : ApplySteps(steps, given, saved, checks)
    \/ \E name \in Names, saved \in BOOLEAN : SetName(name, saved)

Spec == FileInit /\ [][FileNext]_vars

-----------------------------------------------------------------------------
(* Claims about the version of a file, checked under Spec *)

\* C1: every apply_steps call on a file with a full document that returns
\* Ok for a non-empty batch leaves the version exactly 1 above the version
\* before the call, and returns it, whatever the size of the batch.
C1_BatchIncrementsVersionOnce ==
    (last.op = "apply_steps" /\ last.result = "ok" /\ last.n > 0)
        => /\ store = "full"
           /\ last.before.ok
           /\ version(TheFile) = [ok |-> TRUE, n |-> last.before.n + 1]
           /\ last.ret = last.before.n + 1

\* C1 happens: a batch of two steps was applied and the version went up by 1
C1_TwoStepBatchApplied ==
    /\ last.op = "apply_steps" /\ last.result = "ok" /\ last.n = 2
    /\ last.changed
    /\ version(TheFile).n = last.before.n + 1

\* C2: the version of a built file is never negative and never below the
\* version it had before the last successful call on it, be that a setter,
\* a step batch or a rebuild from its stored metadata.
C2_VersionNeverDecreases ==
    (store = "full" /\ last.result = "ok" /\ last.before.ok)
        => /\ version(TheFile).ok
           /\ version(TheFile).n >= 0
           /\ version(TheFile).n >= last.before.n

\* C3: whenever apply_steps returns an error the stored version is the one
\* before the call and the document is unchanged.
C3_ErrorLeavesFileUnchanged ==
    (last.op = "apply_steps" /\ last.result = "err")
        => version(TheFile) = last.before /\ ~last.changed

\* C4: apply_steps never fails because the caller's version differs from
\* the file's: with the saves accepted and no arithmetic trap, the steps
\* are applied and the call returns Ok with the current version plus 1;
\* and whatever the caller's version, the outcome is the one the call has
\* with the current version.
C4_VersionMismatchIsNoError ==
    /\ (last.op = "apply_steps" /\ store = "full" /\ last.saved
            /\ last.result # "panic")
        => /\ last.result = "ok"
           /\ last.applied
           /\ last.ret = last.before.n + 1
    /\ (store = "full" /\ version(TheFile).ok)
        => \A given \in GivenVersions, steps \in {<<>>, <<InsertA>>},
              saved \in BOOLEAN :
              apply_steps(TheFile, steps, given, saved, TRUE)
                  = apply_steps(TheFile, steps, version(TheFile).n, saved, TRUE)

\* C4 happens: a call with a version other than the file's returned Ok and
\* changed the document
C4_StaleVersionAccepted ==
    /\ last.op = "apply_steps" /\ last.result = "ok"
    /\ last.before.ok /\ last.given # last.before.n
    /\ last.changed /\ last.applied

\* C32: a File built from a store whose metadata holds a version written by
\* set_version, which writes a string, has that same version: build and
\* init never reset an existing version to 0.
C32_BuildKeepsStoredVersion ==
    (store = "full" /\ meta.version.t = "str")
        => \A failAt \in FailAts :
               build(TheFile, failAt).ok
                   => version(build(TheFile, failAt).f) = version(TheFile)

\* C33: a setter that returns an error leaves the metadata of the file as
\* it was before the call.
C33_FailedSetterChangesNothing ==
    [][(last'.op = "set_name" /\ last'.result = "err") => meta' = meta]_vars

\* a replace, an addMark and a removeMark step at the position from
C36_StepsAt(from) ==
    {ReplaceStep(from, from, Slice(<<Item("text", <<"a">>, NoMarks)>>)),
     AddMarkStep(from, from + 1, Mark("strong", Absent)),
     RemoveMarkStep(from, from + 1, Mark("strong", Absent))}

\* C36: apply_steps of a replace, addMark or removeMark step whose from
\* resolves to no text container of the document does not return Ok.
C36_UnresolvedPositionFails ==
    store = "full"
        => \A from \in 0..MaxPos :
               ~find_text_at_position(doc, from).ok
                   => \A step \in C36_StepsAt(from) :
                          apply_steps(TheFile, <<step>>, 0, TRUE, TRUE).result # "ok"

\* C37: apply_steps with an empty batch that returns Ok leaves the document
\* and the version of the file as they were.
C37_EmptyBatchChangesNothing ==
    (last.op = "apply_steps" /\ last.n = 0 /\ last.result = "ok")
        => ~last.changed /\ version(TheFile) = last.before

-----------------------------------------------------------------------------
(* SpecFind: find_text_at_position over the documents a LoroDoc may hold:  *)
(* Init draws the document, Find resolves a position in it.                *)

\* a text of n characters
Letters(n) == [i \in 1..n |-> "a"]
TextOf(n) == Text(Plain(Letters(n)))
\* a structural node with a children list
Paragraph(children) == Node("paragraph", TRUE, children)
\* the root map of an initialized document (document.rs:63-92)
RootOf(children) == Node("doc", TRUE, children)

\* the children a root may hold: paragraphs of one text, of two texts, of
\* none; paragraphs whose text follows a value, a childless map or a nested
\* structural node; a map with no children list; a value; a text
FindElems ==
    {Paragraph(<<TextOf(n)>>) : n \in 0..MaxLen}
    \cup {Paragraph(<<TextOf(1), TextOf(n)>>) : n \in 0..1}
    \cup {Paragraph(<<>>),
          Paragraph(<<Other, TextOf(1)>>),
          Paragraph(<<Node("hard_break", FALSE, <<>>), TextOf(1)>>),
          Paragraph(<<Node("blockquote", TRUE, <<TextOf(1)>>), TextOf(1)>>),
          Node("horizontal_rule", FALSE, <<>>),
          Other,
          TextOf(1)}

\* a new LoroDoc, or a root over at most MaxNodes children
FindDocs == {EmptyDoc} \cup {RootOf(children) : children \in SeqsUpTo(FindElems, MaxNodes)}

FindInit ==
    /\ doc \in FindDocs
    /\ meta = EmptyMeta
    /\ store = "full"
    /\ last = [op |-> "new", position |-> 0, r |-> NotFound]

\* find_text_at_position(&doc, position)
Find(position) ==
    /\ last' = [op |-> "find", position |-> position,
                r |-> find_text_at_position(doc, position)]
    /\ UNCHANGED <<doc, meta, store>>

FindNext == \E position \in 0..MaxPos : Find(position)

SpecFind == FindInit /\ [][FindNext]_vars

-----------------------------------------------------------------------------
(* Claims about find_text_at_position, checked under SpecFind *)

\* the document of C5: one paragraph holding one text of length L
C5_SingleParagraph(L) == RootOf(<<Paragraph(<<TextOf(L)>>)>>)

\* C5: in a document whose single paragraph holds one text container of
\* length L, every position p with 0 <= p <= L resolves to that container
\* with start 0 and relative offset p, and every p > L is not found.
C5_EndInclusiveResolution ==
    \A L \in 0..MaxLen :
        (last.op = "find" /\ doc = C5_SingleParagraph(L))
            => last.r = IF last.position <= L
                        THEN Found(<<1, 1>>, 0, last.position)
                        ELSE NotFound

\* C5 happens: the position at the very end of a text of two characters
\* resolved into it
C5_EndOfTextResolved ==
    /\ last.op = "find" /\ doc = C5_SingleParagraph(2)
    /\ last.position = 2
    /\ last.r = Found(<<1, 1>>, 0, 2)

RECURSIVE C6_DeepWalk(_, _, _, _, _)
\* the walk C6 describes: every structural node is entered, at any depth,
\* and costs 1 once its children are passed
C6_DeepWalk(nodes, k, pos, position, prefix) ==
    IF k > Len(nodes) THEN [ok |-> FALSE, pos |-> pos]
    ELSE IF nodes[k].kind = "text"
    THEN IF position >= pos /\ position <= pos + Len(nodes[k].chars)
         THEN Found(Append(prefix, k), pos, position - pos)
         ELSE C6_DeepWalk(nodes, k + 1, pos + Len(nodes[k].chars), position, prefix)
    ELSE IF nodes[k].kind = "map"
    THEN LET r == C6_DeepWalk(nodes[k].children, 1, pos, position, Append(prefix, k))
         IN  IF r.ok THEN r
             ELSE C6_DeepWalk(nodes, k + 1, r.pos + 1, position, prefix)
    ELSE C6_DeepWalk(nodes, k + 1, pos + 1, position, prefix)

\* C6: find_text_at_position walks the whole tree with one counter,
\* entering the children of every structural node at any depth and adding
\* exactly 1 per structural node passed.
C6_WalksWholeTree ==
    (last.op = "find" /\ doc.hasChildren)
        => LET r == C6_DeepWalk(doc.children, 1, 0, last.position, <<>>)
           IN  last.r = IF r.ok THEN r ELSE NotFound

\* the width of a child of a root child: a text its length, anything else 1
C6_InnerWidth(n) == IF n.kind = "text" THEN Len(n.chars) ELSE 1

RECURSIVE C6_InnerSum(_, _)
C6_InnerSum(nodes, k) ==
    IF k = 0 THEN 0 ELSE C6_InnerSum(nodes, k - 1) + C6_InnerWidth(nodes[k])

\* the width of a root child: a text its length; a map with a children list
\* its children's widths plus 1; a map without one nothing; anything else 1
C6_RootWidth(n) ==
    IF n.kind = "text" THEN Len(n.chars)
    ELSE IF n.kind = "map"
    THEN IF n.hasChildren THEN C6_InnerSum(n.children, Len(n.children)) + 1 ELSE 0
    ELSE 1

RECURSIVE C6_RootSum(_, _)
C6_RootSum(nodes, k) ==
    IF k = 0 THEN 0 ELSE C6_RootSum(nodes, k - 1) + C6_RootWidth(nodes[k])

\* the text containers at depth one and two
C6_Reachable(d) ==
    {<<i>> : i \in {k \in 1..Len(d.children) : d.children[k].kind = "text"}}
    \cup UNION {
        {<<i, j>> : j \in {k \in 1..Len(d.children[i].children) :
                              d.children[i].children[k].kind = "text"}} :
        i \in {k \in 1..Len(d.children) :
                  d.children[k].kind = "map" /\ d.children[k].hasChildren}}

C6_Start(d, path) ==
    C6_RootSum(d.children, path[1] - 1)
    + (IF Len(path) = 2
       THEN C6_InnerSum(d.children[path[1]].children, path[2] - 1)
       ELSE 0)

\* document order of two reachable containers
C6_Before(p, q) == p[1] < q[1] \/ (p[1] = q[1] /\ p[2] < q[2])

\* C6, amended: the walk has two levels.  It reaches the texts among the
\* root's children and among the children of each root child that is a map
\* with a children list, and returns the first of them, in document order,
\* whose closed range [start, start + length] holds the position, where
\* start is the sum of the widths before it; no text deeper than that is
\* ever returned.
C6_TwoLevelWalk ==
    last.op = "find"
        => IF ~doc.hasChildren THEN last.r = NotFound
           ELSE LET hits == {path \in C6_Reachable(doc) :
                               /\ last.position >= C6_Start(doc, path)
                               /\ last.position <= C6_Start(doc, path)
                                       + Len(TextAt(doc, path).chars)}
                IN  IF hits = {} THEN last.r = NotFound
                    ELSE \E path \in hits :
                            /\ \A q \in hits : q = path \/ C6_Before(path, q)
                            /\ last.r = Found(path, C6_Start(doc, path),
                                              last.position - C6_Start(doc, path))

\* C6 happens: a position resolved into the text of a second paragraph,
\* past a nested structural node that was counted as 1 and not entered
C6_NestedNodeSkipped ==
    /\ last.op = "find"
    /\ doc = RootOf(<<Paragraph(<<Node("blockquote", TRUE, <<TextOf(1)>>), TextOf(1)>>),
                      Paragraph(<<TextOf(2)>>)>>)
    /\ last.position = 4
    /\ last.r = Found(<<2, 1>>, 3, 1)

-----------------------------------------------------------------------------
(* SpecSteps: replace steps applied by apply_steps_to_loro_doc, alone or    *)
(* next to a step of no known type, to a document initialized once or      *)
(* twice, and the document read back by loro_doc_to_pm_doc.                *)

\* a freshly initialized rich-text document: one paragraph, one empty text
FreshDoc == initialize_richtext_document(EmptyDoc)

\* whether to lies past the end of the container that from resolves to
PastContainer(loro_doc, from, to) ==
    \E r \in {find_text_at_position(loro_doc, from)} :
        r.ok /\ to > r.start + Len(TextAt(loro_doc, r.path).chars)

\* what the model keeps of the last call of apply_steps_to_loro_doc: the
\* type of its step, whether from = to, whether the document before it was
\* the freshly initialized one, whether to lay past the container, whether
\* an overflow check aborted the call, and whether the document changed
Stepped(op, stepType, emptyRange, fresh, past, panic, changed) ==
    [op |-> op, stepType |-> stepType, emptyRange |-> emptyRange,
     fresh |-> fresh, past |-> past, panic |-> panic, changed |-> changed]

\* slice.content of the replace steps: one text, one text of two
\* characters, two texts, a text whose mark has no attrs, a text with no
\* characters, a node that is no text, nothing
StepSlices ==
    {Slice(<<Item("text", <<"a">>, NoMarks)>>),
     Slice(<<Item("text", <<"b", "a">>, NoMarks)>>),
     Slice(<<Item("text", <<"a">>, NoMarks), Item("text", <<"b">>, NoMarks)>>),
     Slice(<<Item("text", <<"b">>, Marks(<<Mark("strong", Absent)>>))>>),
     Slice(<<Item("text", <<>>, NoMarks)>>),
     Slice(<<Item("paragraph", <<>>, NoMarks)>>),
     Slice(<<>>)}

\* steps that are no replace, addMark or removeMark: one of another type,
\* one with no stepType
OtherSteps == {OtherStep("replaceAround"), OtherStep("")}

\* the steps of SpecSteps: insertions, deletions (also with a reversed
\* range), replacements, and steps that are no replace, addMark or
\* removeMark
ReplaceSteps ==
    {ReplaceStep(from, from, slice) : from \in 0..MaxPos, slice \in StepSlices}
    \cup {ReplaceStep(range[1], range[2], NoSlice) :
            range \in {q \in (0..MaxPos) \X (0..MaxPos) : q[1] # q[2]}}
    \cup {ReplaceStep(range[1], range[2], Slice(<<Item("text", <<"b">>, NoMarks)>>)) :
            range \in {q \in (0..MaxPos) \X (0..MaxPos) : q[1] < q[2]}}
    \cup OtherSteps

StepsInit ==
    /\ doc \in {FreshDoc, initialize_richtext_document(FreshDoc)}
    /\ meta = EmptyMeta
    /\ store = "full"
    /\ last = Stepped("new", "", TRUE, doc = FreshDoc, FALSE, FALSE, FALSE)

\* apply_steps_to_loro_doc(&doc, &[step])
Step(step, checks) ==
    /\ \E a \in {apply_steps_to_loro_doc(doc, <<step>>, checks)} :
           /\ DocWithinBounds(a.doc)
           /\ doc' = a.doc
           /\ last' = Stepped("steps", step.stepType, step.from = step.to,
                              doc = FreshDoc, PastContainer(doc, step.from, step.to),
                              a.panic, a.doc # doc)
    /\ UNCHANGED <<meta, store>>

\* apply_steps_to_loro_doc(&doc, &[other, step]) or (&doc, &[step, other]),
\* other being a step of no known type
SkipThenStep(other, step, first, checks) ==
    /\ \E a \in {apply_steps_to_loro_doc(
                    doc, IF first THEN <<other, step>> ELSE <<step, other>>, checks)} :
           /\ DocWithinBounds(a.doc)
           /\ doc' = a.doc
           /\ last' = Stepped("batch", step.stepType, step.from = step.to,
                              doc = FreshDoc, PastContainer(doc, step.from, step.to),
                              a.panic, a.doc # doc)
    /\ UNCHANGED <<meta, store>>

\* loro_doc_to_pm_doc(&doc)
ToJson ==
    /\ doc' = AfterRead(doc)
    /\ last' = Stepped("json", "", TRUE, doc = FreshDoc, FALSE, FALSE,
                       AfterRead(doc) # doc)
    /\ UNCHANGED <<meta, store>>

StepsNext ==
    \/ \E step \in ReplaceSteps, checks \in BOOLEAN : Step(step, checks)
    \/ \E other \in OtherSteps, step \in {InsertA, DeleteFirst, DeleteReversed},
          first \in BOOLEAN, checks \in BOOLEAN :
              SkipThenStep(other, step, first, checks)
    \/ ToJson

SpecSteps == StepsInit /\ [][StepsNext]_vars

-----------------------------------------------------------------------------
(* Claims about replace steps, checked under SpecSteps *)

\* a slice of one text item holding a non-empty string
C7_InsertsOneString(slice) ==
    /\ slice.has /\ Len(slice.content) = 1
    /\ slice.content[1].type = "text" /\ slice.content[1].text # <<>>

\* slices of one text item whose marks carry attrs
C7_MarkedSlices ==
    {Slice(<<Item("text", <<"a", "b">>, Marks(<<Mark("link", Str(<<"u">>))>>))>>),
     Slice(<<Item("text", <<"b">>,
                 Marks(<<Mark("strong", Absent), Mark("em", True)>>))>>)}

\* the text-node contents of the JSON read back from a document
C7_ReadBack(loro_doc) ==
    LET json == loro_doc_to_pm_doc(loro_doc)
    IN  IF json.ok THEN [ok |-> TRUE, text |-> JsonText(json.json)]
        ELSE [ok |-> FALSE, text |-> <<>>]

\* C7: after a single replace step with from = to = 0 that inserts a
\* non-empty string s into a freshly initialized document,
\* loro_doc_to_pm_doc succeeds and the contents of its text nodes,
\* concatenated in document order, are s.
C7_InsertReadsBack ==
    doc = FreshDoc
        => \A step \in {x \in ReplaceSteps : x.stepType = "replace"}
                       \cup {ReplaceStep(0, 0, slice) : slice \in C7_MarkedSlices},
              checks \in BOOLEAN :
              (step.from = 0 /\ step.to = 0 /\ C7_InsertsOneString(step.slice))
                  => C7_ReadBack(apply_steps_to_loro_doc(doc, <<step>>, checks).doc)
                         = [ok |-> TRUE, text |-> step.slice.content[1].text]

\* C7 happens: "ba" was inserted into the fresh document and reads back
C7_StringInsertedIntoFreshDoc ==
    /\ last.op = "steps" /\ last.stepType = "replace" /\ last.emptyRange
    /\ last.fresh /\ last.changed
    /\ doc = WithChars(FreshDoc, <<1, 1>>, Plain(<<"b", "a">>))
    /\ C7_ReadBack(doc) = [ok |-> TRUE, text |-> <<"b", "a">>]

\* chars without the characters lo+1..hi
C10_Without(chars, lo, hi) ==
    IF hi <= lo THEN chars
    ELSE SubSeq(chars, 1, lo) \o SubSeq(chars, hi + 1, Len(chars))

\* the document C10 expects of the deletion from..to: in the container that
\* from resolves to, the characters from the resolved offset up to
\* min(to, end of that container) are gone; nothing else differs
C10_Deleted(loro_doc, from, to) ==
    LET r == find_text_at_position(loro_doc, from)
    IN  IF ~r.ok THEN loro_doc
        ELSE LET chars == TextAt(loro_doc, r.path).chars
                 end == Min(to, r.start + Len(chars))
             IN  WithChars(loro_doc, r.path, C10_Without(chars, r.rel, end - r.start))

\* C10: a replace step with from # to deletes, in the one container that
\* from resolves to, exactly the characters from the resolved offset up to
\* min(to, end of that container); every other container keeps its text,
\* and the insertion of the step then works on that document.  (With to
\* before the container's start nothing is deleted: the call is aborted by
\* the overflow check, or the engine refuses the wrapped length.)
C10_DeletionClippedToContainer ==
    \A step \in {x \in ReplaceSteps : x.stepType = "replace" /\ x.from # x.to},
       checks \in BOOLEAN :
        LET a == apply_steps_to_loro_doc(doc, <<step>>, checks)
            deleted == C10_Deleted(doc, step.from, step.to)
        IN  IF a.panic THEN a.doc = doc /\ deleted = doc
            ELSE /\ a.doc = ReplaceInsert(deleted, step.from, step.slice).doc
                 /\ ReplaceDelete(doc, step.from, step.to, checks).doc = deleted

\* C10 happens: a deletion whose to lay past the end of its container
\* changed the document of two paragraphs, whose second text is not empty
C10_ClippedDeletionHappened ==
    /\ last.op = "steps" /\ last.stepType = "replace" /\ ~last.emptyRange
    /\ last.past /\ last.changed /\ ~last.panic
    /\ Len(doc.children) = 2
    /\ doc.children[2].children[1].chars # <<>>

\* C11: a step whose stepType is not replace, addMark or removeMark, or
\* that has none, is skipped without error: alone it leaves the document
\* as it is, and a batch holding it before or after another step does
\* what that other step alone does.
C11_UnknownStepSkipped ==
    \A other \in OtherSteps, checks \in BOOLEAN :
        /\ apply_steps_to_loro_doc(doc, <<other>>, checks) = Applied(doc, FALSE, FALSE)
        /\ \A step \in {r \in ReplaceSteps : r.from <= 1 /\ r.to <= 2}
                        \cup {AddMarkStep(0, 1, Mark("bold", Absent)),
                              RemoveMarkStep(0, 1, Mark("bold", Absent))} :
              /\ apply_steps_to_loro_doc(doc, <<other, step>>, checks)
                    = apply_steps_to_loro_doc(doc, <<step>>, checks)
              /\ apply_steps_to_loro_doc(doc, <<step, other>>, checks)
                    = apply_steps_to_loro_doc(doc, <<step>>, checks)

\* C11 happens: a batch of an unknown step and a replace step ran to its
\* end and changed the document
C11_BatchWithUnknownStepApplied ==
    /\ last.op = "batch" /\ last.stepType = "replace"
    /\ last.changed /\ ~last.panic

C35_TwoItems ==
    Slice(<<Item("text", <<"a">>, NoMarks), Item("text", <<"b">>, NoMarks)>>)

\* C35: a replace step whose slice holds several text items leaves them in
\* the container in slice order from the position from on: inserting the
\* items "a", "b" at a position that resolves, the container reads "a" and
\* right after it "b" there.
C35_ItemsInSliceOrder ==
    \A from \in 0..MaxPos :
        \E r \in {find_text_at_position(doc, from)} :
            r.ok => \E after \in {TextAt(apply_steps_to_loro_doc(
                                            doc, <<ReplaceStep(from, from, C35_TwoItems)>>,
                                            TRUE).doc, r.path).chars} :
                        /\ Len(after) >= r.rel + 2
                        /\ after[r.rel + 1].c = "a"
                        /\ after[r.rel + 2].c = "b"

-----------------------------------------------------------------------------
(* SpecMarks: addMark and removeMark steps applied by                      *)
(* apply_steps_to_loro_doc to documents of plain text.                     *)

\* the marks of the steps: one with no attrs, one whose attrs are an
\* object, one whose attrs are null
StepMarks ==
    {Mark("bold", Absent),
     Mark("link", Obj({<<"href", Str(<<"u">>)>>})),
     Mark("em", Null)}

\* the ranges of the steps, from before to
MarkRanges == {q \in (0..MaxPos) \X (0..MaxPos) : q[1] < q[2]}

\* the batches of SpecMarks: one addMark, one removeMark, or an addMark
\* followed by the removeMark of the same mark over the same range
MarkBatches ==
    {<<AddMarkStep(range[1], range[2], mark)>> : range \in MarkRanges, mark \in StepMarks}
    \cup {<<RemoveMarkStep(range[1], range[2], mark)>> :
            range \in MarkRanges, mark \in StepMarks}
    \cup {<<AddMarkStep(range[1], range[2], mark),
            RemoveMarkStep(range[1], range[2], mark)>> :
            range \in MarkRanges, mark \in StepMarks}

\* documents of one paragraph of plain text, or of that and a second
\* paragraph of one character
PlainDocs ==
    {RootOf(<<Paragraph(<<TextOf(n)>>)>>) : n \in 1..MaxLen}
    \cup {RootOf(<<Paragraph(<<TextOf(n)>>), Paragraph(<<TextOf(1)>>)>>) : n \in 1..MaxLen}

\* what the model keeps of the last batch: the document before it, its
\* steps, and how many batches were applied so far
Marked(op, before, steps, count) ==
    [op |-> op, before |-> before, steps |-> steps, count |-> count]

MarksInit ==
    /\ doc \in PlainDocs
    /\ meta = EmptyMeta
    /\ store = "full"
    /\ last = Marked("new", doc, <<>>, 0)

\* apply_steps_to_loro_doc(&doc, &steps)
MarkSteps(steps) ==
    /\ last.count < MaxMarkBatches
    /\ \E a \in {apply_steps_to_loro_doc(doc, steps, TRUE)} :
           /\ doc' = a.doc
           /\ last' = Marked("steps", doc, steps, last.count + 1)
    /\ UNCHANGED <<meta, store>>

MarksNext == \E steps \in MarkBatches : MarkSteps(steps)

SpecMarks == MarksInit /\ [][MarksNext]_vars

-----------------------------------------------------------------------------
(* Claims about mark steps, checked under SpecMarks *)

\* the value C8 expects under the mark's type
C8_Value(mark) == IF mark.attrs = Absent THEN Obj({<<"value", True>>}) ELSE mark.attrs

\* the document C8 expects of an addMark step: on the characters of the
\* range clipped to the resolved container the attribute type |-> value is
\* set, and nothing else differs
C8_Expected(loro_doc, step) ==
    LET r == find_text_at_position(loro_doc, step.from)
    IN  IF ~r.ok THEN loro_doc
        ELSE LET chars == TextAt(loro_doc, r.path).chars
                 end == Min(step.to, r.start + Len(chars)) - r.start
             IN  WithChars(loro_doc, r.path,
                    [i \in 1..Len(chars) |->
                        IF i > r.rel /\ i <= end
                        THEN Ch(chars[i].c,
                                SetAttr(chars[i].attrs, step.mark.type, C8_Value(step.mark)))
                        ELSE chars[i]])

\* the marks of the text nodes read back from a document
ReadMarks(loro_doc) ==
    LET json == loro_doc_to_pm_doc(loro_doc)
        nodes == IF json.ok THEN JsonTextNodes(json.json) ELSE <<>>
    IN  [k \in 1..Len(nodes) |-> nodes[k].marks]

\* C8: an addMark step puts on exactly the characters of its range clipped
\* to the resolved container one attribute whose key is the mark's type and
\* whose value is the mark's attrs, or {value: true} without attrs, and the
\* JSON read back shows a mark of that type there.
C8_AddMarkKeyedByType ==
    (last.op = "steps" /\ Len(last.steps) = 1 /\ last.steps[1].stepType = "addMark")
        => /\ doc = C8_Expected(last.before, last.steps[1])
           /\ doc # last.before
                => \E k \in 1..Len(ReadMarks(doc)) :
                      \E m \in ReadMarks(doc)[k].arr : m.type = last.steps[1].mark.type

\* C9: addMark of a type over a range of a run, then removeMark of that
\* type over the same range, leaves the run with no mark: in a document
\* that had none, loro_doc_to_pm_doc reports null marks for every text.
C9_RemoveMarkUndoesAddMark ==
    (last.op = "steps" /\ Len(last.steps) = 2 /\ last.before \in PlainDocs)
        => \A k \in 1..Len(ReadMarks(doc)) : ReadMarks(doc)[k].null

-----------------------------------------------------------------------------
(* SpecBuilder: one FileBuilder<Post> from FileBuilder::new through its    *)
(* chained calls to build.  doc, meta and store are the store the builder  *)
(* holds (store "none": no store yet) and, once build returned Ok, those   *)
(* of the File; last.id is the id field of the builder.  A call that       *)
(* returns Err consumes the builder, and a new one takes its place.        *)

\* what the model keeps of the last builder call: how it ended, the id
\* field afterwards, the store and the id field it found, whether the
\* builder it found had been given no id and no version, whether the
\* metadata handed to with_meta lacks id or name, and how the load of
\* build went ("skip": none attempted)
Called(op, result, bid, had, hadId, neither, lacks, loaded) ==
    [op |-> op, result |-> result, id |-> bid, had |-> had, hadId |-> hadId,
     neither |-> neither, lacks |-> lacks, loaded |-> loaded]

TheBuilder == Builder(last.id, FileOf(doc, meta, store))

\* the builder has not yet been built into a File
Building == ~(last.op = "build" /\ last.result = "ok")

\* neither an id nor a version has been given to the builder
GivenNeither == last.id = Absent /\ meta.id = Absent /\ meta.version = Absent

BuilderIds == {<<"i">>}
BuilderVersions == {0, 2}
Schemas == {<<"s">>}

\* the file a build over a new document with id "i" leaves behind
PersistedFile ==
    build(FileOf(EmptyDoc, [EmptyMeta EXCEPT !.id = Str(<<"i">>)], "full"), 0).f

\* the documents handed to with_doc: a new one, and one built before
BuilderDocs == {FileOf(EmptyDoc, EmptyMeta, "full"), PersistedFile}

\* the maps handed to with_meta
BuilderMetas ==
    {[EmptyMeta EXCEPT !.id = i, !.name = n] :
        i \in {Absent, Str(<<"i">>)}, n \in {Absent, Str(<<"n">>)}}

\* the outcomes of load_from_indexeddb for the id "i": the file built
\* before, a document whose meta holds the id alone, or Err
Loads ==
    {Loaded(PersistedFile, TRUE),
     Loaded(FileOf(EmptyDoc, [EmptyMeta EXCEPT !.id = Str(<<"i">>)], "full"), TRUE),
     Loaded(PersistedFile, FALSE)}

BuilderInit ==
    /\ doc = EmptyDoc /\ meta = EmptyMeta /\ store = "none"
    /\ last = Called("new", "ok", Absent, "none", FALSE, TRUE, FALSE, "skip")

\* a chained call that returned r
Chain(op, r, lacks) ==
    /\ Building
    /\ doc' = IF r.ok THEN r.b.f.doc ELSE EmptyDoc
    /\ meta' = IF r.ok THEN r.b.f.meta ELSE EmptyMeta
    /\ store' = IF r.ok THEN r.b.f.store ELSE "none"
    /\ last' = Called(op, ResultOf(r.ok), IF r.ok THEN r.b.id ELSE Absent,
                      store, last.id # Absent, GivenNeither, lacks, "skip")

WithDoc(f) == Chain("with_doc", with_doc(TheBuilder, f.doc, f.meta), FALSE)
WithMeta(m) ==
    Chain("with_meta", with_meta(TheBuilder, m), m.id = Absent \/ m.name = Absent)
WithId(i) == Chain("with_id", with_id(TheBuilder, i), FALSE)
WithNewId == Chain("with_new_id", with_new_id(TheBuilder), FALSE)
WithVersion(v) == Chain("with_version", with_version(TheBuilder, v), FALSE)
WithName(name) == Chain("with_name", with_name(TheBuilder, name), FALSE)
WithPmSchema(schema) ==
    Chain("with_pm_schema", with_pm_schema(TheBuilder, schema), FALSE)

\* builder.id = Some(i): the id field is public (lib.rs:306)
SetIdField(i) ==
    /\ Building
    /\ last' = Called("id", "ok", Str(i), store, last.id # Absent, GivenNeither,
                      FALSE, "skip")
    /\ UNCHANGED <<doc, meta, store>>

\* builder.build()
BuildBuilder(loaded, failAt) ==
    /\ Building
    /\ \E r \in {builder_build(TheBuilder, loaded, failAt)} :
           /\ doc' = IF r.ok THEN r.f.doc ELSE EmptyDoc
           /\ meta' = IF r.ok THEN r.f.meta ELSE EmptyMeta
           /\ store' = IF r.ok THEN r.f.store ELSE "none"
           /\ last' = Called("build", ResultOf(r.ok), Absent, store,
                             last.id # Absent, GivenNeither, FALSE,
                             IF last.id = Absent \/ store # "none" THEN "skip"
                             ELSE IF loaded.ok THEN "ok" ELSE "fail")

\* FileBuilder::new("post") once the File is built
New ==
    /\ ~Building
    /\ doc' = EmptyDoc /\ meta' = EmptyMeta /\ store' = "none"
    /\ last' = Called("new", "ok", Absent, "none", FALSE, TRUE, FALSE, "skip")

BuilderNext ==
    \/ \E f \in BuilderDocs : WithDoc(f)
    \/ \E m \in BuilderMetas : WithMeta(m)
    \/ \E i \in BuilderIds : WithId(i)
    \/ WithNewId
    \/ \E v \in BuilderVersions : WithVersion(v)
    \/ \E name \in Names : WithName(name)
    \/ \E schema \in Schemas : WithPmSchema(schema)
    \/ \E i \in BuilderIds : SetIdField(i)
    \/ \E loaded \in Loads, failAt \in FailAts : BuildBuilder(loaded, failAt)
    \/ New

SpecBuilder == BuilderInit /\ [][BuilderNext]_vars

-----------------------------------------------------------------------------
(* Claims about FileBuilder, checked under SpecBuilder *)

\* C13: every File that build returns has an id and a version readable from
\* its metadata; when the builder was given neither, the id is a new
\* non-empty identifier and the version is 0.
C13_BuiltFileHasIdAndVersion ==
    (last.op = "build" /\ last.result = "ok")
        => /\ id(TheFile).ok
           /\ version(TheFile).ok
           /\ last.neither
                => /\ id(TheFile).s = NewUuid
                   /\ id(TheFile).s # <<>>
                   /\ version(TheFile).n = 0

C13_BuiltWithNeither ==
    /\ last.op = "build" /\ last.result = "ok" /\ last.neither
    /\ id(TheFile).s = NewUuid /\ version(TheFile) = [ok |-> TRUE, n |-> 0]

\* C14 as stated: with_meta fails whenever the metadata it is handed lacks
\* an id or lacks a name.
C14_WithMetaRequiresIdAndName ==
    (last.op = "with_meta" /\ last.lacks) => last.result = "err"

\* C14, amended: with_meta succeeds exactly when the builder has no store
\* yet, whatever the metadata holds, and makes that map, as it is, the
\* cache of the builder.
C14_WithMetaTakesAnyMetadata ==
    last.op = "with_meta"
        => /\ last.result = "ok" <=> last.had = "none"
           /\ last.result = "ok"
                => /\ store = "cache"
                   /\ last.lacks <=> (meta.id = Absent \/ meta.name = Absent)

C14_IncompleteMetadataAccepted ==
    /\ last.op = "with_meta" /\ last.lacks /\ last.result = "ok"
    /\ store = "cache" /\ meta.id = Absent

C16_FailedLoadStillBuilds ==
    (last.op = "build" /\ last.hadId /\ last.had = "none" /\ last.loaded = "fail")
        => last.result = "ok" /\ store # "none"

-----------------------------------------------------------------------------
(* collection.rs: Collection<Post> over its files tree;                    *)
(* project.rs: Project::add_collection                                     *)

\* a node of a files tree: its meta map and its parent (0: a root), as an
\* index into the nodes in creation order
TreeNode(m, parent) == [meta |-> m, parent |-> parent]

\* a collection map of the project document, with the nodes of its files
\* tree in creation order; exists is FALSE for a name not in "collections"
CollectionMap(exists, files) == [exists |-> exists, files |-> files]

\* Collection::create_file (collection.rs:278-285): builder_for(kind) is
\* FileBuilder::new(kind) (lib.rs:97-102)
create_file(name, kind) == with_name(NewBuilder, name)

\* what attach_file and get_file return: the files tree afterwards, the File
\* or what is left of it, and "ok" or the error
Attached(files, f, result) == [files |-> files, f |-> f, result |-> result]

\* the end of attach_file_with_parent (collection.rs:328-334): built is
\* what build returned
AttachBuilt(files, built) ==
    Attached(files, built.f, IF built.ok THEN "ok" ELSE "build")

\* a variant that creates the node before it looks for the id
attach_file_node_first(files, b, parent, failAt) ==
    IF ~builder_meta(b) THEN Attached(files, b.f, "no_store")
    ELSE IF b.f.meta.id.t # "str"
    THEN Attached(Append(files, TreeNode(EmptyMeta, parent)), b.f, "missing_id")
    ELSE AttachBuilt(Append(files, TreeNode([EmptyMeta EXCEPT !.id = b.f.meta.id], parent)),
                     builder_build(b, Loaded(b.f, FALSE), failAt))

\* Collection::attach_file_with_parent (collection.rs:296-335) on a
\* collection attached to the project document: the builder's meta, then
\* its id, then the new node caching the id, then the build
attach_file_with_parent(files, b, parent, failAt) ==
    IF ~builder_meta(b) THEN Attached(files, b.f, "no_store")
    ELSE IF b.f.meta.id.t # "str" THEN Attached(files, b.f, "missing_id")
    ELSE AttachBuilt(Append(files, TreeNode([EmptyMeta EXCEPT !.id = b.f.meta.id], parent)),
                     builder_build(b, Loaded(b.f, FALSE), failAt))

\* Collection::attach_file (collection.rs:287-289)
attach_file(files, b, failAt) == attach_file_with_parent(files, b, 0, failAt)

\* some node of the tree caches this id (collection.rs:352-360)
CachesId(files, file_id) ==
    \E k \in 1..Len(files) : files[k].meta.id = Str(file_id)

\* the first node that caches the id
FileNode(files, file_id) ==
    CHOOSE k \in 1..Len(files) :
        /\ files[k].meta.id = Str(file_id)
        /\ \A j \in 1..(k - 1) : files[j].meta.id # Str(file_id)

\* the end of get_file (collection.rs:378-389): the node's meta map is the
\* cache the File was built over, so what build wrote into it stays
FileGot(files, k, built) ==
    Attached([files EXCEPT ![k].meta = built.f.meta], built.f,
             IF built.ok THEN "ok" ELSE "build")

\* Collection::get_file (collection.rs:342-390) on an attached collection
get_file(files, file_id, failAt) ==
    IF ~CachesId(files, file_id)
    THEN Attached(files, FileOf(EmptyDoc, EmptyMeta, "none"), "not_found")
    ELSE FileGot(files, FileNode(files, file_id),
                 builder_build(with_meta(NewBuilder, files[FileNode(files, file_id)].meta).b,
                               Loaded(FileOf(EmptyDoc, EmptyMeta, "none"), FALSE), failAt))

RECURSIVE GetFilesFrom(_, _, _, _, _)
\* the loop of get_files from node k on (collection.rs:405-444): a node
\* whose cached type is a string other than the kind is passed over; every
\* other node has a File built over its meta map, which is pushed when the
\* build returned Ok and passed over when it returned Err
GetFilesFrom(files, kind, k, failAt, got) ==
    IF k > Len(files) THEN [files |-> files, got |-> got]
    ELSE IF files[k].meta.type.t = "str" /\ files[k].meta.type # Str(kind)
    THEN GetFilesFrom(files, kind, k + 1, failAt, got)
    ELSE LET g == FileGot(files, k,
                          builder_build(with_meta(NewBuilder, files[k].meta).b,
                                        Loaded(FileOf(EmptyDoc, EmptyMeta, "none"), FALSE),
                                        failAt))
         IN  GetFilesFrom(g.files, kind, k + 1, failAt,
                          IF g.result = "ok" THEN Append(got, g.f) ELSE got)

\* Collection::get_files (collection.rs:392-448) on an attached collection
get_files(files, kind, failAt) == GetFilesFrom(files, kind, 1, failAt, <<>>)

\* Project::add_collection (project.rs:399-441): a new map goes under the
\* name, whatever was there, and CollectionBuilder::build (collection.rs:
\* 85-176) gives it a new files tree
add_collection(collections, name) ==
    [collections EXCEPT ![name] = CollectionMap(TRUE, <<>>)]

-----------------------------------------------------------------------------
(* SpecCollection: the collections of one project document and the files   *)
(* attached to them.  doc is the "collections" map of the project          *)
(* document; meta and store are those of the File the last call returned   *)
(* (store "none": it returned none).                                       *)

\* most nodes the files trees of the project hold together
MaxFiles == 2

CollectionNames == {"post", "page"}
FileIds == {<<"i">>, NewUuid}

\* the builders handed to attach_file: over a new document with a new id,
\* with a given id or with none; over a metadata map with or without an
\* id; and with no store at all
AttachBuilders ==
    {with_new_id(with_doc(NewBuilder, EmptyDoc, EmptyMeta).b).b,
     with_id(with_doc(NewBuilder, EmptyDoc, EmptyMeta).b, <<"i">>).b,
     with_doc(NewBuilder, EmptyDoc, EmptyMeta).b,
     with_meta(NewBuilder, [EmptyMeta EXCEPT !.id = Str(<<"i">>)]).b,
     with_meta(NewBuilder, EmptyMeta).b,
     NewBuilder}

\* which save of a build fails (0: none)
AttachFailAts == {0, 2}

\* what the model keeps of the last call on a collection: the operation,
\* "ok" or its error, the collection, the id (for get_files the kind) asked
\* for or handed in, the number of Files it returned, and the ids of the
\* Files attach_file has returned, each with its collection
Colled(op, result, coll, fid, n, returned) ==
    [op |-> op, result |-> result, coll |-> coll, id |-> fid, n |-> n,
     returned |-> returned]

\* the nodes of all files trees
TotalFiles == Len(doc["post"].files) + Len(doc["page"].files)

CollectionInit ==
    /\ doc = [c \in CollectionNames |->
                 CollectionMap(c = "post", <<>>)]
    /\ meta = EmptyMeta
    /\ store = "none"
    /\ last = Colled("new", "ok", "post", Absent, 0, {})

\* what a call that returned r leaves of its File
FileReturned(r) ==
    /\ meta' = IF r.result = "ok" THEN r.f.meta ELSE EmptyMeta
    /\ store' = IF r.result = "ok" THEN r.f.store ELSE "none"

\* collection.create_file(name, kind) and, when it returned a builder,
\* collection.attach_file of that builder
CreateFile(c, name, r) ==
    /\ doc[c].exists /\ TotalFiles < MaxFiles
    /\ \E a \in {IF r.ok THEN attach_file(doc[c].files, r.b, 0)
                 ELSE Attached(doc[c].files, r.b.f, "no_store")} :
           /\ doc' = [doc EXCEPT ![c].files = a.files]
           /\ FileReturned(a)
           /\ last' = Colled("create_file", a.result, c, a.f.meta.id,
                             IF a.result = "ok" THEN 1 ELSE 0,
                             last.returned \cup
                                 (IF a.result = "ok" THEN {<<c, a.f.meta.id>>} ELSE {}))

\* collection.attach_file_with_parent(builder, parent)
AttachFile(c, b, parent, failAt) ==
    /\ doc[c].exists /\ TotalFiles < MaxFiles
    /\ parent <= Len(doc[c].files)
    /\ \E a \in {attach_file_with_parent(doc[c].files, b, parent, failAt)} :
           /\ doc' = [doc EXCEPT ![c].files = a.files]
           /\ FileReturned(a)
           /\ last' = Colled("attach_file", a.result, c, b.f.meta.id,
                             IF a.result = "ok" THEN 1 ELSE 0,
                             last.returned \cup
                                 (IF a.result = "ok" THEN {<<c, a.f.meta.id>>} ELSE {}))

\* collection.get_file(file_id, kind)
GetFile(c, file_id, failAt) ==
    /\ doc[c].exists
    /\ \E g \in {get_file(doc[c].files, file_id, failAt)} :
           /\ doc' = [doc EXCEPT ![c].files = g.files]
           /\ FileReturned(g)
           /\ last' = Colled("get_file", g.result, c, Str(file_id),
                             IF g.result = "ok" THEN 1 ELSE 0, last.returned)

\* collection.get_files(kind)
GetFiles(c, kind, failAt) ==
    /\ doc[c].exists
    /\ \E g \in {get_files(doc[c].files, kind, failAt)} :
           /\ doc' = [doc EXCEPT ![c].files = g.files]
           /\ meta' = EmptyMeta /\ store' = "none"
           /\ last' = Colled("get_files", "ok", c, Str(kind), Len(g.got), last.returned)

\* project.add_collection(name, model)
AddCollection(c) ==
    /\ doc' = add_collection(doc, c)
    /\ meta' = EmptyMeta /\ store' = "none"
    /\ last' = Colled("add_collection", "ok", c, Absent, 0, last.returned)

CollectionNext ==
    \/ \E c \in CollectionNames, name \in Names :
           CreateFile(c, name, create_file(name, <<"p", "o", "s", "t">>))
    \/ \E c \in CollectionNames, b \in AttachBuilders, parent \in 0..MaxFiles,
          failAt \in AttachFailAts : AttachFile(c, b, parent, failAt)
    \/ \E c \in CollectionNames, file_id \in FileIds, failAt \in AttachFailAts :
           GetFile(c, file_id, failAt)
    \/ \E c \in CollectionNames, kind \in {<<"p", "o", "s", "t">>, <<"x">>},
          failAt \in AttachFailAts : GetFiles(c, kind, failAt)
    \/ \E c \in CollectionNames : AddCollection(c)

SpecCollection == CollectionInit /\ [][CollectionNext]_vars

-----------------------------------------------------------------------------
(* Claims about collections, checked under SpecCollection *)

\* C17: create_file returns a builder for any name and kind, and attach_file
\* of that builder succeeds and returns a File of that kind with a
\* non-empty id.
C17_CreatedFileAttaches ==
    last.op = "create_file"
        => /\ last.result = "ok"
           /\ meta.type = Str(<<"p", "o", "s", "t">>)
           /\ id(TheFile).ok /\ id(TheFile).s # <<>>

C19_GetFileFindsCachedIds ==
    last.op = "get_file"
        => /\ last.result = "ok" <=> CachesId(doc[last.coll].files, last.id.s)
           /\ last.result = "ok" => id(TheFile).s = last.id.s
           /\ last.result # "ok" => last.result = "not_found"

\* C20: once attach_file has returned a File with id i, its node stays in
\* the files tree of its collection and get_file(i) on that collection
\* keeps succeeding, whatever is done afterwards.
C20_AttachedFilesStay ==
    \A at \in last.returned :
        /\ doc[at[1]].exists
        /\ CachesId(doc[at[1]].files, at[2].s)
        /\ get_file(doc[at[1]].files, at[2].s, 0).result = "ok"

\* the nodes of a files tree whose cached type is this kind or is absent
Qualifying(files, kind) ==
    {k \in 1..Len(files) : files[k].meta.type \in {Absent, Str(kind)}}

\* C21: get_files returns exactly one File for each node of the files tree
\* whose cached type is the kind or is absent, none for the other nodes,
\* and an empty list, not an error, when no node qualifies.
C21_GetFilesReturnsQualifyingNodes ==
    [][last'.op = "get_files"
          => /\ last'.result = "ok"
             /\ last'.n = Cardinality(Qualifying(doc[last'.coll].files, last'.id.s))]_vars

\* C34: an attach_file_with_parent that returns an error leaves the files
\* tree with exactly the nodes it had before the call.
C34_FailedAttachLeavesTree ==
    [][(last'.op = "attach_file" /\ last'.result # "ok")
           => doc'[last'.coll].files = doc[last'.coll].files]_vars

\* C38: within one collection no two nodes of the files tree cache the same
\* file id.  NewUuid stands for whatever id Uuid::new_v4 returns, a new one
\* at each call, so two nodes that cache it are not counted as caching the
\* same id.
C38_NodeIdsUnique ==
    \A c \in CollectionNames : \A j \in 1..Len(doc[c].files), k \in 1..Len(doc[c].files) :
        (j # k /\ doc[c].files[j].meta.id = doc[c].files[k].meta.id)
            => doc[c].files[j].meta.id = Str(NewUuid)

-----------------------------------------------------------------------------
(* collection.rs: CollectionBuilder *)

\* FieldDefinition (types.rs): a declared field
FieldDefinition(name, field_type, required) ==
    [name |-> name, field_type |-> field_type, required |-> required]

\* the names a field may be declared under
FieldNames == {"field1", "field2"}

\* a "fields" map that holds no field
NoFields == [n \in FieldNames |-> Absent]

\* the field map insert_container puts under the field's name
\* (collection.rs:128-137, 191-198)
FieldMap(field) == [field_type |-> field.field_type, required |-> field.required]

\* CollectionBuilder::new (collection.rs:52-67): the name is taken as it is
CollectionBuilder_new(name) == [ok |-> TRUE, name |-> name, fields |-> <<>>]

\* CollectionBuilder::add_field (collection.rs:69-76)
add_field(b, name, field_type, required) ==
    [b EXCEPT !.fields = Append(@, FieldDefinition(name, field_type, required))]

RECURSIVE BuildFields(_, _, _)
\* the loop over the declared fields in build (collection.rs:121-141): a
\* name the fields map already holds is passed over
BuildFields(fields_map, fields, k) ==
    IF k > Len(fields) THEN fields_map
    ELSE BuildFields(IF fields_map[fields[k].name] # Absent THEN fields_map
                     ELSE [fields_map EXCEPT ![fields[k].name] = FieldMap(fields[k])],
                     fields, k + 1)

\* CollectionBuilder::build (collection.rs:86-176): the fields map of the
\* collection of the builder's name in the project document afterwards;
\* collections maps each name to that fields map, Absent when the document
\* holds no collection of the name
collection_build(b, collections) ==
    [collections EXCEPT ![b.name] =
        BuildFields(IF @ = Absent THEN NoFields ELSE @, b.fields, 1)]

RECURSIVE DetachedFields(_, _, _)
\* the loop of build_detached (collection.rs:185-199): each declared field
\* is inserted under its name
DetachedFields(fields_map, fields, k) ==
    IF k > Len(fields) THEN fields_map
    ELSE DetachedFields([fields_map EXCEPT ![fields[k].name] = FieldMap(fields[k])],
                        fields, k + 1)

\* CollectionBuilder::build_detached (collection.rs:178-206): the fields
\* map of the collection it returns
build_detached(b) == DetachedFields(NoFields, b.fields, 1)

-----------------------------------------------------------------------------
(* SpecFields: one CollectionBuilder and the project document it builds    *)
(* into.  doc maps each collection name to the fields map the document     *)
(* holds for it; meta is the Vec of fields the builder has been given;     *)
(* store is the builder's name, "none" before CollectionBuilder::new.      *)

\* most fields one builder declares
MaxDecls == 2

\* the last call on the builder: the operation, "ok" or "err", the name and
\* the fields the builder had, and the fields map of the Collection returned
Fielded(op, result, name, fields, built) ==
    [op |-> op, result |-> result, name |-> name, fields |-> fields, built |-> built]

FieldsInit ==
    /\ doc = [c \in {<<>>, <<"c">>} |-> Absent]
    /\ meta = <<>>
    /\ store = "none"
    /\ last = Fielded("none", "ok", <<>>, <<>>, NoFields)

\* CollectionBuilder::new(name)
NewCollectionBuilder(name) ==
    /\ \E b \in {CollectionBuilder_new(name)} :
           /\ meta' = b.fields
           /\ store' = IF b.ok THEN "builder" ELSE "none"
           /\ last' = Fielded("new", IF b.ok THEN "ok" ELSE "err", name, <<>>, NoFields)
    /\ UNCHANGED doc

\* builder.add_field(name, field_type, required)
AddField(name, field_type, required) ==
    /\ store = "builder" /\ Len(meta) < MaxDecls
    /\ meta' = add_field([name |-> last.name, fields |-> meta],
                         name, field_type, required).fields
    /\ last' = Fielded("add_field", "ok", last.name, meta', NoFields)
    /\ UNCHANGED <<doc, store>>

\* builder.build(&doc)
BuildCollection ==
    /\ store = "builder"
    /\ doc' = collection_build([name |-> last.name, fields |-> meta], doc)
    /\ meta' = <<>> /\ store' = "none"
    /\ last' = Fielded("build", "ok", last.name, meta, doc'[last.name])

\* builder.build_detached()
BuildDetached ==
    /\ store = "builder"
    /\ meta' = <<>> /\ store' = "none"
    /\ last' = Fielded("build_detached", "ok", last.name, meta,
                       build_detached([name |-> last.name, fields |-> meta]))
    /\ UNCHANGED doc

FieldsNext ==
    \/ \E name \in {<<>>, <<"c">>} : NewCollectionBuilder(name)
    \/ \E name \in FieldNames, field_type \in {"text", "number"}, required \in BOOLEAN :
           AddField(name, field_type, required)
    \/ BuildCollection
    \/ BuildDetached

SpecFields == FieldsInit /\ [][FieldsNext]_vars

-----------------------------------------------------------------------------
(* Claims about CollectionBuilder, checked under SpecFields *)

\* the last field of the name among the declared ones
LastDeclared(fields, name) ==
    fields[CHOOSE k \in 1..Len(fields) :
               /\ fields[k].name = name
               /\ \A j \in (k + 1)..Len(fields) : fields[j].name # name]

\* C24: a collection built from a builder, detached or into a project
\* document that may already hold the field, has under every declared name
\* the type and the required flag of the last declaration of that name.
C24_LastDeclarationWins ==
    last.op \in {"build", "build_detached"}
        => \A k \in 1..Len(last.fields) :
               last.built[last.fields[k].name]
                   = FieldMap(LastDeclared(last.fields, last.fields[k].name))

\* C25: CollectionBuilder::new returns an error when the name is empty.
C25_EmptyNameRefused ==
    (last.op = "new" /\ last.name = <<>>) => last.result = "err"

-----------------------------------------------------------------------------
(* project.rs: Project; store.rs: the file operations of StoreInner *)

\* the names a collection of a project may have
ProjectCollections == {"page", "post", "asset", "template", "partial", "text"}

\* doc.get_map("collections") of a new LoroDoc (project.rs:76-77)
NoCollections == [c \in ProjectCollections |-> CollectionMap(FALSE, <<>>)]

\* a Project (project.rs:58-65) by its type, the themeId of its meta map
\* and its collections; NoProject: the Option holds none
ProjectOf(project_type, themeId, collections) ==
    [project_type |-> project_type, themeId |-> themeId, collections |-> collections]
NoProject == ProjectOf("none", Absent, NoCollections)

\* the document of an attached file as its File leaves it: the File, the
\* plain-text content (templates and texts), and the name the store was
\* last given for it (bookkeeping of the model)
FileDoc(f, content, named) == [f |-> f, content |-> content, named |-> named]

\* no file in any collection
NoFiles == [c \in ProjectCollections |-> <<>>]

\* a project with the documents of its files, and how the call that made
\* or changed them ended: "ok", "err" or "panic"
Projected(p, files, result) == [p |-> p, files |-> files, result |-> result]

\* Collection::create_file(name, collection_type, store) as project.rs:485
\* calls it: a builder of the kind over the store given, with a new id and
\* the name
create_file_in(name, collection_type, st) ==
    with_name(with_new_id((IF st = "full" THEN with_doc(NewBuilder, EmptyDoc, EmptyMeta)
                           ELSE with_meta(NewBuilder, EmptyMeta)).b).b,
              name)

\* Project::create_file (project.rs:476-486)
project_create_file(p, name, collection_type, st) ==
    IF ~p.collections[collection_type].exists THEN Chained(NewBuilder, FALSE)
    ELSE create_file_in(name, collection_type, st)

\* Project::attach_file (project.rs:489-503) of a builder of this collection
\* type: a missing collection is returned as Err, a failed attach_file
\* meets expect("Failed to attach file")
project_attach_file(p, b, collection_type, failAt) ==
    IF ~p.collections[collection_type].exists
    THEN [p |-> p, f |-> b.f, result |-> "err"]
    ELSE LET a == attach_file(p.collections[collection_type].files, b, failAt)
         IN  [p |-> [p EXCEPT !.collections[collection_type].files = a.files],
              f |-> a.f,
              result |-> IF a.result = "ok" THEN "ok" ELSE "panic"]

TEMPLATE_CONTENT == Str(<<"<!DOCTYPE html>">>)
HELLO_TITLE == Str(<<"Hello World Title!">>)

\* create_file, with_pm_schema when a schema is given, attach_file, then
\* the content or the title, as init_default_theme, init_default_site and
\* create_file_generic do in this order (project.rs:213-225, 319-350,
\* store.rs:588-610); failAt is the save that fails: 1..6 within the build,
\* 7 the title
CreateAndAttach(pr, name, collection_type, st, schema, content, title, failAt) ==
    IF pr.result # "ok" THEN pr
    ELSE LET created == project_create_file(pr.p, name, collection_type, st)
             b == IF created.ok /\ schema
                  THEN with_pm_schema(created.b, <<"doc">>) ELSE created
         IN  IF ~b.ok THEN Projected(pr.p, pr.files, "err")
             ELSE LET a == project_attach_file(pr.p, b.b, collection_type, failAt)
                      t == IF title = Absent THEN Done(a.f, TRUE)
                           ELSE set_field(a.f, "title", title.s, failAt # 7)
                  IN  IF a.result # "ok" THEN Projected(a.p, pr.files, a.result)
                      ELSE Projected(a.p,
                                     [pr.files EXCEPT ![collection_type] =
                                         Append(@, FileDoc(t.f, content, Str(name)))],
                                     IF t.ok THEN "ok" ELSE "err")

\* one default file of a new project: a template or text with its content,
\* a page or post with its schema and title
DefaultFile(pr, name, collection_type, content, title, failAt) ==
    CreateAndAttach(pr, name, collection_type, "full", title # Absent,
                    content, title, failAt)

\* a variant whose index template is left without content
init_default_theme_empty(p, fails) ==
    DefaultFile(
        DefaultFile(
            Projected([p EXCEPT !.collections =
                          add_collection(add_collection(add_collection(add_collection(
                              @, "template"), "partial"), "text"), "asset")],
                      NoFiles, "ok"),
            <<"index">>, "template", Str(<<>>), Absent, fails[1]),
        <<"style">>, "text", Str(<<"* {">>), Absent, fails[2])

\* Project::init_default_theme (project.rs:157-230)
init_default_theme(p, fails) ==
    DefaultFile(
        DefaultFile(
            Projected([p EXCEPT !.collections =
                          add_collection(add_collection(add_collection(add_collection(
                              @, "template"), "partial"), "text"), "asset")],
                      NoFiles, "ok"),
            <<"index">>, "template", TEMPLATE_CONTENT, Absent, fails[1]),
        <<"style">>, "text", Str(<<"* {">>), Absent, fails[2])

\* a variant that leaves the theme id out of the meta map
init_default_site_no_theme(p, theme_id, fails) ==
    DefaultFile(
        DefaultFile(
            Projected([p EXCEPT !.collections =
                          add_collection(add_collection(add_collection(
                              @, "page"), "post"), "asset")],
                      NoFiles, "ok"),
            <<"main">>, "page", Absent, HELLO_TITLE, fails[1]),
        <<"test_post">>, "post", Absent, HELLO_TITLE, fails[2])

\* Project::init_default_site (project.rs:233-355)
init_default_site(p, theme_id, fails) ==
    DefaultFile(
        DefaultFile(
            Projected([p EXCEPT !.themeId = Str(theme_id),
                                !.collections =
                                    add_collection(add_collection(add_collection(
                                        @, "page"), "post"), "asset")],
                      NoFiles, "ok"),
            <<"main">>, "page", Absent, HELLO_TITLE, fails[1]),
        <<"test_post">>, "post", Absent, HELLO_TITLE, fails[2])

\* Project::new (project.rs:68-114); theme_id is Absent for None
Project_new(project_type, theme_id, fails) ==
    IF project_type = "site"
    THEN IF theme_id = Absent THEN Projected(NoProject, NoFiles, "err")
         ELSE init_default_site(ProjectOf("site", Absent, NoCollections), theme_id.s, fails)
    ELSE init_default_theme(ProjectOf("theme", Absent, NoCollections), fails)

\* Project::set_theme_id (project.rs:390-396)
set_theme_id(p, theme_id) == [p EXCEPT !.themeId = Str(theme_id)]

\* Project::theme_id (project.rs:380-388)
theme_id_of(p) == p.themeId

\* StoreInner::create_file (store.rs:572-700) on the active project: an
\* asset is created over a new cache, every other file over a new document
store_create_file(p, files, collection_name, name, failAt) ==
    IF p.project_type = "none" THEN Projected(p, files, "err")
    ELSE CreateAndAttach(Projected(p, files, "ok"), name, collection_name,
                         IF collection_name = "asset" THEN "cache" ELSE "full",
                         collection_name \in {"page", "post"}, Absent, Absent, failAt)

\* what get_file and update_file of the store answer: the project
\* afterwards, "ok" or "err", and the name in the file's JSON
Answered(p, result, name) == [p |-> p, result |-> result, name |-> name]

\* StoreInner::get_file (store.rs:826-915) on the active project
store_get_file(p, collection_name, file_id, failAt) ==
    IF ~p.collections[collection_name].exists THEN Answered(p, "err", Absent)
    ELSE LET g == get_file(p.collections[collection_name].files, file_id, failAt)
         IN  Answered([p EXCEPT !.collections[collection_name].files = g.files],
                      IF g.result = "ok" THEN "ok" ELSE "err",
                      IF g.result = "ok" THEN g.f.meta.name ELSE Absent)

\* StoreInner::update_file with FileUpdate::SetName (store.rs:710-823):
\* the File comes from get_file, so set_name writes into the meta map of
\* its node
store_update_file(p, collection_name, file_id, name, failAt) ==
    IF collection_name \notin {"page", "post"}
          \/ ~p.collections[collection_name].exists
    THEN Answered(p, "err", Absent)
    ELSE LET files == p.collections[collection_name].files
             g == get_file(files, file_id, failAt)
             r == set_name(g.f, name, TRUE)
         IN  IF g.result # "ok"
             THEN Answered([p EXCEPT !.collections[collection_name].files = g.files],
                           "err", Absent)
             ELSE Answered([p EXCEPT !.collections[collection_name].files =
                               [g.files EXCEPT ![FileNode(files, file_id)].meta = r.f.meta]],
                           IF r.ok THEN "ok" ELSE "err", Str(name))

\* StoreInner::list_files (store.rs:917-990) on the active project: the
\* names in the JSON of the Files get_files returned.  T::init writes the
\* type of T and the collection is asked for that same string, so the kind
\* given here is the type string init writes
store_list_files(p, collection_name, failAt) ==
    IF p.project_type = "none" \/ ~p.collections[collection_name].exists
    THEN Answered(p, "err", <<>>)
    ELSE LET g == get_files(p.collections[collection_name].files,
                            <<"p", "o", "s", "t">>, failAt)
         IN  Answered([p EXCEPT !.collections[collection_name].files = g.files],
                      "ok", [k \in 1..Len(g.got) |-> g.got[k].meta.name])

-----------------------------------------------------------------------------
(* SpecProject: the active project of a store and the files attached to    *)
(* it.  doc is the Project; meta maps each collection to the documents of  *)
(* its attached files in the order of their nodes; store is "up" until a   *)
(* call panics and "panicked" from then on.                                *)

\* the last call: the operation, "ok", "err" or "panic", the project type
\* and theme id given to Project::new, the collection, the file id and the
\* name asked about or answered
Projd(op, result, project_type, theme_id, coll, fid, name) ==
    [op |-> op, result |-> result, project_type |-> project_type,
     theme_id |-> theme_id, coll |-> coll, id |-> fid, name |-> name]

\* the nodes of all files trees of a project
ProjectNodes(p) ==
    Len(p.collections["page"].files) + Len(p.collections["post"].files)
    + Len(p.collections["asset"].files) + Len(p.collections["template"].files)
    + Len(p.collections["partial"].files) + Len(p.collections["text"].files)

ProjectInit ==
    /\ doc = NoProject
    /\ meta = NoFiles
    /\ store = "up"
    /\ last = Projd("none", "ok", "none", Absent, "page", Absent, Absent)

\* what a call that ended with this result leaves of the process
Ended(result) == store' = IF result = "panic" THEN "panicked" ELSE "up"

\* Project::new(project_type, theme_id), the project becoming the active
\* one when it returns Ok (store.rs:216-245, 289-336)
NewProject(project_type, theme_id, fails) ==
    /\ store = "up"
    /\ \E pr \in {Project_new(project_type, theme_id, fails)} :
           /\ doc' = IF pr.result = "ok" THEN pr.p ELSE doc
           /\ meta' = IF pr.result = "ok" THEN pr.files ELSE meta
           /\ Ended(pr.result)
           /\ last' = Projd("new", pr.result, project_type, theme_id, "page",
                            Absent, Absent)

\* project.set_theme_id(theme_id)
SetThemeId(theme_id) ==
    /\ store = "up" /\ doc.project_type # "none"
    /\ doc' = set_theme_id(doc, theme_id)
    /\ last' = Projd("set_theme_id", "ok", doc.project_type, Str(theme_id),
                     "page", Absent, Absent)
    /\ UNCHANGED <<meta, store>>

\* project.attach_file(builder) with a builder of the collection type
ProjectAttachFile(c, b, failAt) ==
    /\ store = "up" /\ doc.project_type # "none"
    /\ ProjectNodes(doc) <= MaxFiles
    /\ \E a \in {project_attach_file(doc, b, c, failAt)} :
           /\ doc' = a.p
           /\ meta' = IF a.result = "ok"
                      THEN [meta EXCEPT ![c] = Append(@, FileDoc(a.f, Absent, Absent))]
                      ELSE meta
           /\ Ended(a.result)
           /\ last' = Projd("attach_file", a.result, doc.project_type, Absent, c,
                            b.f.meta.id, Absent)

\* the store's create_file message
StoreCreateFile(c, name, failAt) ==
    /\ store = "up"
    /\ ProjectNodes(doc) <= MaxFiles
    /\ \E pr \in {store_create_file(doc, meta, c, name, failAt)} :
           /\ doc' = pr.p
           /\ meta' = pr.files
           /\ Ended(pr.result)
           /\ last' = Projd("create_file", pr.result, doc.project_type, Absent, c,
                            Absent, Str(name))

\* the store's get_file message
StoreGetFile(c, file_id, failAt) ==
    /\ store = "up" /\ doc.project_type # "none"
    /\ \E r \in {store_get_file(doc, c, file_id, failAt)} :
           /\ doc' = r.p
           /\ last' = Projd("get_file", r.result, doc.project_type, Absent, c,
                            Str(file_id), r.name)
    /\ UNCHANGED <<meta, store>>

\* the store's update_file message with SetName; the name counts as given
\* to every file of that id when the answer is a success
StoreUpdateFile(c, file_id, name, failAt) ==
    /\ store = "up" /\ doc.project_type # "none"
    /\ \E r \in {store_update_file(doc, c, file_id, name, failAt)} :
           /\ doc' = r.p
           /\ meta' = IF r.result # "ok" THEN meta
                      ELSE [meta EXCEPT ![c] =
                               [k \in 1..Len(@) |->
                                   IF id(@[k].f).s = file_id
                                   THEN [@[k] EXCEPT !.named = Str(name)] ELSE @[k]]]
           /\ last' = Projd("update_file", r.result, doc.project_type, Absent, c,
                            Str(file_id), Str(name))
    /\ UNCHANGED store

\* the store's list_files message
StoreListFiles(c, failAt) ==
    /\ store = "up"
    /\ \E r \in {store_list_files(doc, c, failAt)} :
           /\ doc' = r.p
           /\ last' = Projd("list_files", r.result, doc.project_type, Absent, c,
                            Absent, r.name)
    /\ UNCHANGED <<meta, store>>

\* a setter of the File attach_file returned for the k-th node of a
\* collection
SetFileField(c, k, field, value, saved) ==
    /\ store = "up" /\ k <= Len(meta[c])
    /\ \E r \in {set_field(meta[c][k].f, field, value, saved)} :
           /\ meta' = [meta EXCEPT ![c][k].f = r.f]
           /\ last' = Projd("set_field", IF r.ok THEN "ok" ELSE "err",
                            doc.project_type, Absent, c, Str(field), Str(value))
    /\ UNCHANGED <<doc, store>>

\* StoreInner::get_active_file (store.rs:1340-1366): nothing ever sets the
\* active file, and the Option is unwrapped
GetActiveFile ==
    /\ store = "up"
    /\ store' = "panicked"
    /\ last' = Projd("get_active_file", "panic", doc.project_type, Absent, "page",
                     Absent, Absent)
    /\ UNCHANGED <<doc, meta>>

ProjectNext ==
    \/ \E project_type \in {"site", "theme"}, theme_id \in {Absent, Str(<<"t">>)},
          fails \in {<<0, 0>>, <<2, 0>>, <<0, 7>>} :
           NewProject(project_type, theme_id, fails)
    \/ SetThemeId(<<"s">>)
    \/ \E c \in {"page", "text"}, failAt \in AttachFailAts,
          b \in {with_new_id(with_doc(NewBuilder, EmptyDoc, EmptyMeta).b).b,
                 with_doc(NewBuilder, EmptyDoc, EmptyMeta).b} :
           ProjectAttachFile(c, b, failAt)
    \/ \E c \in {"page", "asset"}, failAt \in AttachFailAts :
           StoreCreateFile(c, <<"n">>, failAt)
    \/ \E c \in {"page", "post"}, file_id \in FileIds :
           StoreGetFile(c, file_id, 0)
    \/ \E c \in {"page", "asset"}, file_id \in FileIds :
           StoreUpdateFile(c, file_id, <<"m">>, 0)
    \/ \E c \in {"page", "text"} : StoreListFiles(c, 0)
    \/ \E k \in 1..(MaxFiles + 1),
          fv \in {<<"version", <<"1">>>>, <<"id", <<"i">>>>} :
           SetFileField("page", k, fv[1], fv[2], TRUE)
    \/ GetActiveFile

SpecProject == ProjectInit /\ [][ProjectNext]_vars

-----------------------------------------------------------------------------
(* Claims about projects and the store, checked under SpecProject *)

\* the cached metadata of a node holds no field that differs from the same
\* field of the file's document; the version is compared as File::version
\* reads it
CacheMirrors(cache, own) ==
    /\ \A field \in {"id", "name", "type", "title", "url", "pm_schema"} :
           cache[field] # Absent => cache[field] = own[field]
    /\ cache.version # Absent
           => version(FileOf(EmptyDoc, cache, "cache")) = version(FileOf(EmptyDoc, own, "full"))

\* C22: for every attached file, whatever setters have been called, each
\* field its files-tree node caches equals the same field of the file's own
\* document.
C22_CacheMirrorsDocument ==
    \A c \in ProjectCollections : \A k \in 1..Len(meta[c]) :
        CacheMirrors(doc.collections[c].files[k].meta, meta[c][k].f.meta)

C26_ThemeIdIffSite ==
    /\ doc.project_type = "site" => theme_id_of(doc) # Absent
    /\ doc.project_type = "theme" => theme_id_of(doc) = Absent
    /\ (last.op = "new" /\ last.project_type = "site" /\ last.theme_id = Absent)
           => last.result = "err"

\* C27: no operation panics.
C27_NothingPanics == store = "up" /\ last.result # "panic"

\* the names of the collections a project holds
CollectionsOf(p) == {c \in ProjectCollections : p.collections[c].exists}

NamedFiles(c) == {k \in 1..Len(meta[c]) : meta[c][k].named # Absent}

-----------------------------------------------------------------------------
(* SpecOps: the futures process_message makes of two messages for the      *)
(* active site (store.rs:53-83), each run until it is done or suspended on *)
(* the persistence collaborator.  doc is the files tree of the page        *)
(* collection; meta maps each future to its message and its position;      *)
(* store is the holder of the active_site mutex, 0 when it is free.        *)

Ops == {1, 2}

\* a future: the message it handles and where it is: "idle" (no message),
\* "suspended" on a save, "done", "panicked", or "blocked" in lock()
OpAt(kind, pc) == [kind |-> kind, pc |-> pc]

OpsInit ==
    /\ doc = <<>>
    /\ meta = [o \in Ops |-> OpAt("none", "idle")]
    /\ store = 0
    /\ last = [op |-> "none", by |-> 0]

\* the thread is stuck in lock() of a future: nothing else runs
Stuck == \E o \in Ops : meta[o].pc = "blocked"

\* a future reaches active_site.lock() (store.rs:343, 580-590, 742-745,
\* 876-880, 953-956, 1010-1013) while a suspended future holds the guard: the std mutex of a
\* build without threads panics, the one of a build with threads waits for
\* a guard that the waiting thread itself would have to release
LockHeld(o, kind) ==
    /\ meta[o].pc = "idle" /\ ~Stuck
    /\ store # 0
    /\ \E outcome \in {"panicked", "blocked"} :
           meta' = [meta EXCEPT ![o] = OpAt(kind, outcome)]
    /\ last' = [op |-> kind, by |-> o]
    /\ UNCHANGED <<doc, store>>

\* create_file_generic (store.rs:572-617) up to the first save of the
\* build: the guard is taken and kept, the builder is made, attach_file
\* has created the node
BeginCreateFile(o) ==
    /\ meta[o].pc = "idle" /\ ~Stuck
    /\ store = 0
    /\ Len(doc) < MaxFiles
    /\ doc' = attach_file(doc, create_file_in(<<"n">>, "page", "full").b, 0).files
    /\ store' = o
    /\ meta' = [meta EXCEPT ![o] = OpAt("create_file", "suspended")]
    /\ last' = [op |-> "create_file", by |-> o]

\* save_state (store.rs:993-1057) up to save_data: the project is cloned
\* out of the mutex and exported, the guard is gone before the await
BeginSaveState(o) ==
    /\ meta[o].pc = "idle" /\ ~Stuck
    /\ store = 0
    /\ meta' = [meta EXCEPT ![o] = OpAt("save_state", "suspended")]
    /\ last' = [op |-> "save_state", by |-> o]
    /\ UNCHANGED <<doc, store>>

\* get_file (store.rs:852-915): the project is cloned out of the mutex;
\* no save of a File over a cache reaches the collaborator, so the future
\* runs to its end
RunGetFile(o, file_id) ==
    /\ meta[o].pc = "idle" /\ ~Stuck
    /\ store = 0
    /\ doc' = get_file(doc, file_id, 0).files
    /\ meta' = [meta EXCEPT ![o] = OpAt("get_file", "done")]
    /\ last' = [op |-> "get_file", by |-> o]
    /\ UNCHANGED store

\* get_site (store.rs:340-355): the guard is a temporary of the if let and
\* nothing is awaited
RunGetSite(o) ==
    /\ meta[o].pc = "idle" /\ ~Stuck
    /\ store = 0
    /\ meta' = [meta EXCEPT ![o] = OpAt("get_site", "done")]
    /\ last' = [op |-> "get_site", by |-> o]
    /\ UNCHANGED <<doc, store>>

\* list_files (store.rs:940-990): the guard is kept over get_files, whose
\* Files are built over caches, so no save reaches the collaborator and the
\* future runs to its end
RunListFiles(o) ==
    /\ meta[o].pc = "idle" /\ ~Stuck
    /\ store = 0
    /\ doc' = get_files(doc, <<"p", "o", "s", "t">>, 0).files
    /\ meta' = [meta EXCEPT ![o] = OpAt("list_files", "done")]
    /\ last' = [op |-> "list_files", by |-> o]
    /\ UNCHANGED store

\* the collaborator answers: the suspended future runs to its end and
\* drops the guard it holds
Resume(o) ==
    /\ meta[o].pc = "suspended" /\ ~Stuck
    /\ meta' = [meta EXCEPT ![o].pc = "done"]
    /\ store' = IF store = o THEN 0 ELSE store
    /\ last' = [op |-> "resume", by |-> o]
    /\ UNCHANGED doc

\* the promise of a finished future is settled; the next message may come
Settle(o) ==
    /\ meta[o].pc \in {"done", "panicked"} /\ ~Stuck
    /\ meta' = [meta EXCEPT ![o] = OpAt("none", "idle")]
    /\ last' = [op |-> "settle", by |-> o]
    /\ UNCHANGED <<doc, store>>

OpsNext ==
    \/ \E o \in Ops, kind \in {"create_file", "save_state", "get_file", "get_site",
                               "list_files"} :
           LockHeld(o, kind)
    \/ \E o \in Ops : BeginCreateFile(o)
    \/ \E o \in Ops : BeginSaveState(o)
    \/ \E o \in Ops, file_id \in FileIds : RunGetFile(o, file_id)
    \/ \E o \in Ops : RunGetSite(o)
    \/ \E o \in Ops : RunListFiles(o)
    \/ \E o \in Ops : Resume(o)
    \/ \E o \in Ops : Settle(o)

SpecOps == OpsInit /\ [][OpsNext]_vars

\* C28: store operations on the active project never interleave: while one
\* is suspended on persistence no other has begun.
C28_OneOperationAtATime ==
    \A o1 \in Ops, o2 \in Ops :
        (o1 # o2 /\ meta[o1].pc = "suspended") => meta[o2].pc = "idle"

====
